---- MODULE Spec2Model ----
(***************************************************************************)
(* Consensus validation core of bchd (blockchain/validate.go).             *)
(*                                                                         *)
(* Amounts are counted in units of 5^10 = 9,765,625 satoshi, the largest   *)
(* unit in which baseSubsidy (5,000,000,000 satoshi = 512 units), its      *)
(* first nine halvings and MaxSatoshi (21e6 * 1e8 satoshi = 215,040,000    *)
(* units) are whole numbers that fit TLC's integers.          Every        *)
(* amount of the model is a whole number of units, and for such amounts    *)
(* every comparison the code makes has the same outcome in units as in     *)
(* satoshi.                                                                *)
(***************************************************************************)
EXTENDS Integers, Sequences, FiniteSets, TLC

VARIABLES
    chain,        \* the BlockChain object b: chainParams, excessiveBlockSize, ablaState, checkpoint
    utxoCache,    \* b.utxoCache: the UTXO store, outpoint -> entry
    node,         \* the blockNode being connected
    block,        \* the candidate block
    view,         \* the UtxoViewpoint passed to checkConnectBlock
    stxos,        \* the spent-txout log, one record per input spent, in spending order
    pc,           \* position inside checkConnectBlock
    txIdx,        \* index of the transaction the input loop is at (1-based)
    totalFees,    \* the fee accumulator of checkConnectBlock
    scriptFlags,  \* the script flag set built by checkConnectBlock
    connected,    \* indices of the transactions connected to the view so far
    checkedAt,    \* per checked transaction: the set of transactions connected when it was checked
    seqLocks,     \* the sequence locks calcSequenceLock produced, per transaction
    scriptCall,   \* the arguments checkBlockScripts was called with, or NoCall
    result,       \* what checkConnectBlock returned: "running", "nil" or an error code
    arg,          \* arguments of the last call of a function checked in isolation
    ret,          \* what that call returned
    chainLock,    \* b.chainLock: TRUE while a caller holds it
    bestChain,    \* b.bestChain: the tip of the best chain
    calls         \* per caller of an exported function: the call it is in and where

vars ==
    << chain, utxoCache, node, block, view, stxos, pc, txIdx, totalFees, scriptFlags,
       connected, checkedAt, seqLocks, scriptCall, result, arg, ret,
       chainLock, bestChain, calls >>

\* the lock, the tip and the callers of the exported functions
lockVars == << chainLock, bestChain, calls >>

\* all but arg and ret
ccbVars ==
    << chain, utxoCache, node, block, view, stxos, pc, txIdx, totalFees, scriptFlags,
       connected, checkedAt, seqLocks, scriptCall, result, lockVars >>

-----------------------------------------------------------------------------
(* Constants of validate.go *)

MinCoinbaseScriptLen == 2

MaxCoinbaseScriptLen == 100

serializedHeightVersion == 2

\* 50 * SatoshiPerBitcoin = 5,000,000,000 satoshi = 512 units of 5^10 satoshi
baseSubsidy == 512

LegacyMaxBlockSize == 1000000

MaxTransactionSize == 1000000

MagneticAnomalyMinTransactionSize == 100

MinTransactionSize == 65

BlockMaxBytesMaxSigChecksRatio == 141

MaxTransactionSigChecks == 3000

\* bchutil.MaxSatoshi = 21e6 * 1e8 satoshi, in units of 5^10 satoshi
MaxSatoshi == 21 * 10240000

\* math.MaxUint32 (0xFFFFFFFF), the index of the null outpoint; the all-ones
\* 32-bit pattern is written -1 because 2^32 - 1 exceeds TLC's integers
MaxUint32 == -1

\* txscript.Bip16Activation.Unix(): 1 April 2012 00:00:00 UTC
Bip16Activation == 1333238400

\* the zero value of chainhash.Hash
zeroHash == 0

\* the absent result of a lookup (a nil *UtxoEntry)
Nil == [nil |-> TRUE]

\* the nil error
NoError == "nil"

NoCall == [called |-> FALSE]

-----------------------------------------------------------------------------
(* Sequence helpers *)

RECURSIVE SumSeq(_)
SumSeq(s) ==
    IF s = << >> THEN 0 ELSE Head(s) + SumSeq(Tail(s))

Range(s) == { s[i] : i \in 1..Len(s) }

-----------------------------------------------------------------------------
(* Transactions, outpoints, UTXO entries *)

OutPoint(h, i) == [Hash |-> h, Index |-> i]

NullOutPoint == OutPoint(zeroHash, MaxUint32)

Entry(amount, height, cb, spent) ==
    [amount |-> amount, blockHeight |-> height, isCoinBase |-> cb, spent |-> spent]

isNullOutpoint(outpoint) ==
    outpoint.Index = MaxUint32 /\ outpoint.Hash = zeroHash

IsCoinBaseTx(msgTx) ==
    IF Len(msgTx.TxIn) # 1 THEN FALSE
    ELSE LET prevOut == msgTx.TxIn[1]
         IN  IF prevOut.Index # MaxUint32 \/ prevOut.Hash # zeroHash THEN FALSE
             ELSE TRUE

IsCoinBase(tx) == IsCoinBaseTx(tx)

\* UtxoViewpoint.LookupEntry: the entry of the view for the outpoint, or nil
LookupEntry(v, outpoint) ==
    IF outpoint \in DOMAIN v THEN v[outpoint] ELSE Nil

\* utxoCache.FetchEntry: the entry of the store for the outpoint, or nil
FetchEntry(cache, outpoint) ==
    IF outpoint \in DOMAIN cache THEN cache[outpoint] ELSE Nil

\* f with x mapped to e, x added to the domain when absent
Put(f, x, e) ==
    [y \in DOMAIN f \cup {x} |-> IF y = x THEN e ELSE f[y]]

-----------------------------------------------------------------------------
(* CalcBlockSubsidy *)

\* x >> n for a non-negative x
RECURSIVE ShiftRight(_, _)
ShiftRight(x, n) ==
    IF n = 0 \/ x = 0 THEN x ELSE ShiftRight(x \div 2, n - 1)

CalcBlockSubsidy(height, chainParams) ==
    IF chainParams.SubsidyReductionInterval = 0 THEN baseSubsidy
    ELSE ShiftRight(baseSubsidy, height \div chainParams.SubsidyReductionInterval)

\* the satoshi in one unit of amount
SatoshiPerUnit == 5^10

\* x >> n for a non-negative amount x held to the satoshi, as whole units and
\* the satoshi below a unit; a shift by 64 or more gives 0 as every shift
\* that has emptied x does
RECURSIVE ShiftRightSatoshi(_, _)
ShiftRightSatoshi(x, n) ==
    IF n = 0 \/ (x.units = 0 /\ x.satoshi = 0) THEN x
    ELSE ShiftRightSatoshi(
             [units   |-> x.units \div 2,
              satoshi |-> ((x.units % 2) * SatoshiPerUnit + x.satoshi) \div 2],
             n - 1)

\* CalcBlockSubsidySatoshi as it would be if a halving began with the first
\* block of an interval already under way
CalcBlockSubsidySatoshi_HalvesEarly(height, chainParams) ==
    IF chainParams.SubsidyReductionInterval = 0
    THEN [units |-> baseSubsidy, satoshi |-> 0]
    ELSE ShiftRightSatoshi(
             [units |-> baseSubsidy, satoshi |-> 0],
             (height + chainParams.SubsidyReductionInterval - 1)
                 \div chainParams.SubsidyReductionInterval)

\* CalcBlockSubsidy to the satoshi, for heights from 0 on; CalcBlockSubsidy
\* above is its whole units
CalcBlockSubsidySatoshi(height, chainParams) ==
    IF chainParams.SubsidyReductionInterval = 0
    THEN [units |-> baseSubsidy, satoshi |-> 0]
    ELSE ShiftRightSatoshi([units |-> baseSubsidy, satoshi |-> 0],
                           height \div chainParams.SubsidyReductionInterval)

-----------------------------------------------------------------------------
(* CheckTransactionInputs *)

\* The input loop from input i on, with the running total totalSatoshiIn:
\* the first failing input's error, else the total of the inputs.
RECURSIVE CheckInputLoop(_, _, _, _, _, _)

\* CheckInputLoop as it would be with the maturity comparison off by one (<=)
CheckInputLoop_MaturityOffByOne(tx, txHeight, utxoView, chainParams, i, totalSatoshiIn) ==
    IF i > Len(tx.TxIn) THEN [err |-> NoError, totalSatoshiIn |-> totalSatoshiIn]
    ELSE
      LET utxo == LookupEntry(utxoView, tx.TxIn[i])
          Fail(code) == [err |-> code, totalSatoshiIn |-> 0]
      IN  IF utxo = Nil THEN Fail("ErrMissingTxOut")
          ELSE IF utxo.spent THEN Fail("ErrSpentTxOut")
          ELSE IF utxo.isCoinBase
                  /\ txHeight - utxo.blockHeight <= chainParams.CoinbaseMaturity
               THEN Fail("ErrImmatureSpend")
          ELSE IF utxo.amount < 0 \/ utxo.amount > MaxSatoshi
                  \/ totalSatoshiIn + utxo.amount > MaxSatoshi
               THEN Fail("ErrBadTxOutValue")
          ELSE CheckInputLoop(tx, txHeight, utxoView, chainParams, i + 1,
                              totalSatoshiIn + utxo.amount)

CheckInputLoop(tx, txHeight, utxoView, chainParams, i, totalSatoshiIn) ==
    IF i > Len(tx.TxIn) THEN [err |-> NoError, totalSatoshiIn |-> totalSatoshiIn]
    ELSE
      LET utxo == LookupEntry(utxoView, tx.TxIn[i])
          Fail(code) == [err |-> code, totalSatoshiIn |-> 0]
      IN  IF utxo = Nil THEN Fail("ErrMissingTxOut")
          ELSE IF utxo.spent THEN Fail("ErrSpentTxOut")
          ELSE IF utxo.isCoinBase
                  /\ txHeight - utxo.blockHeight < chainParams.CoinbaseMaturity
               THEN Fail("ErrImmatureSpend")
          ELSE IF utxo.amount < 0 THEN Fail("ErrBadTxOutValue")
          ELSE IF utxo.amount > MaxSatoshi THEN Fail("ErrBadTxOutValue")
          ELSE LET lastSatoshiIn == totalSatoshiIn
                   newTotal == totalSatoshiIn + utxo.amount
               IN  IF newTotal < lastSatoshiIn \/ newTotal > MaxSatoshi
                   THEN Fail("ErrBadTxOutValue")
                   ELSE CheckInputLoop(tx, txHeight, utxoView, chainParams, i + 1, newTotal)

\* CheckTransactionInputs as it would be without the check that the inputs
\* cover the outputs
CheckTransactionInputs_NoSpendCheck(tx, txHeight, utxoView, chainParams) ==
    IF IsCoinBase(tx) THEN [fee |-> 0, err |-> NoError]
    ELSE
      LET ins == CheckInputLoop(tx, txHeight, utxoView, chainParams, 1, 0)
      IN  IF ins.err # NoError THEN [fee |-> 0, err |-> ins.err]
          ELSE [fee |-> ins.totalSatoshiIn - SumSeq(tx.TxOut), err |-> NoError]

\* (fee, err) of CheckTransactionInputs(tx, txHeight, utxoView, chainParams)
CheckTransactionInputs(tx, txHeight, utxoView, chainParams) ==
    IF IsCoinBase(tx) THEN [fee |-> 0, err |-> NoError]
    ELSE
      LET ins == CheckInputLoop(tx, txHeight, utxoView, chainParams, 1, 0)
          totalSatoshiOut == SumSeq(tx.TxOut)
      IN  IF ins.err # NoError THEN [fee |-> 0, err |-> ins.err]
          ELSE IF ins.totalSatoshiIn < totalSatoshiOut
               THEN [fee |-> 0, err |-> "ErrSpendTooHigh"]
          ELSE [fee |-> ins.totalSatoshiIn - totalSatoshiOut, err |-> NoError]


-----------------------------------------------------------------------------
(* MaxBlockSize, SequenceLockActive, isBIP0030Node *)

\* MaxBlockSize as it would be if the ABLA limit applied whenever ABLA is active
MaxBlockSize_AblaFirst(b, uahfActive, ablaActive) ==
    IF ablaActive THEN b.ablaBlockSizeLimit
    ELSE IF uahfActive THEN b.excessiveBlockSize
    ELSE LegacyMaxBlockSize

MaxBlockSize(b, uahfActive, ablaActive) ==
    IF uahfActive
    THEN IF ~ablaActive THEN b.excessiveBlockSize
         ELSE b.ablaBlockSizeLimit
    ELSE LegacyMaxBlockSize

SequenceLockActive(sequenceLock, blockHeight, medianTimePast) ==
    IF sequenceLock.Seconds >= medianTimePast \/ sequenceLock.BlockHeight >= blockHeight
    THEN FALSE
    ELSE TRUE

\* the two blocks that violate BIP0030, by height and hash
block91842Hash == "00000000000a4d0a398161ffc163c503763b1f4360639393e0e4c8e300e0caec"

block91880Hash == "00000000000743f190a18c5577a3c2d2a1f610ae9601ac046a38084ccb7cd721"

\* isBIP0030Node as it would be if the height alone made the exemption
isBIP0030Node_HeightOnly(n) ==
    n.height = 91842 \/ n.height = 91880

isBIP0030Node(n) ==
    IF n.height = 91842 /\ n.hash = block91842Hash THEN TRUE
    ELSE IF n.height = 91880 /\ n.hash = block91880Hash THEN TRUE
    ELSE FALSE


-----------------------------------------------------------------------------
(* The UTXO viewpoint operations checkConnectBlock calls *)

\* the outpoints the non-coinbase transactions of the block reference, in block order
RECURSIVE BlockInputs(_)
BlockInputs(txs) ==
    IF txs = << >> THEN << >>
    ELSE (IF IsCoinBase(Head(txs)) THEN << >> ELSE Head(txs).TxIn) \o BlockInputs(Tail(txs))

\* view.addInputUtxos: every outpoint the block's inputs reference that the view
\* lacks is loaded from the store when the store has it
addInputUtxos(v, cache, blk) ==
    LET wanted == { op \in Range(BlockInputs(blk.txs)) :
                        op \notin DOMAIN v /\ op \in DOMAIN cache }
    IN  [op \in DOMAIN v \cup wanted |-> IF op \in DOMAIN v THEN v[op] ELSE cache[op]]

\* AddTxOuts: the outputs of tx become unspent entries of the view
RECURSIVE AddTxOuts(_, _, _, _)
AddTxOuts(v, tx, height, k) ==
    IF k > Len(tx.TxOut) THEN v
    ELSE AddTxOuts(Put(v, OutPoint(tx.Hash, k - 1),
                       Entry(tx.TxOut[k], height, IsCoinBase(tx), FALSE)),
                   tx, height, k + 1)

\* Marks the inputs of tx from input j on as spent, logging each; an input
\* whose entry the view does not hold unspent is an error.
RECURSIVE SpendInputs(_, _, _, _, _)
SpendInputs(v, log, tx, txi, j) ==
    IF j > Len(tx.TxIn) THEN [err |-> NoError, view |-> v, stxos |-> log]
    ELSE
      LET op == tx.TxIn[j]
          entry == LookupEntry(v, op)
      IN  IF entry = Nil \/ entry.spent
          THEN [err |-> "AssertError", view |-> v, stxos |-> log]
          ELSE SpendInputs(Put(v, op, [entry EXCEPT !.spent = TRUE]),
                           Append(log, [outpoint |-> op, entry |-> entry, tx |-> txi, input |-> j]),
                           tx, txi, j + 1)

\* connectTransaction: spend the inputs of tx, then add its outputs
connectTransaction(v, log, tx, txi, blockHeight) ==
    LET spentIns == IF IsCoinBase(tx) THEN [err |-> NoError, view |-> v, stxos |-> log]
                    ELSE SpendInputs(v, log, tx, txi, 1)
    IN  IF spentIns.err # NoError THEN spentIns
        ELSE [spentIns EXCEPT !.view = AddTxOuts(spentIns.view, tx, blockHeight, 1)]

RECURSIVE AddAllTxOuts(_, _, _, _)
AddAllTxOuts(v, txs, height, i) ==
    IF i > Len(txs) THEN v
    ELSE AddAllTxOuts(AddTxOuts(v, txs[i], height, 1), txs, height, i + 1)

RECURSIVE SpendAllInputs(_, _, _, _)
SpendAllInputs(v, log, txs, i) ==
    IF i > Len(txs) THEN [err |-> NoError, view |-> v, stxos |-> log]
    ELSE
      LET r == IF IsCoinBase(txs[i]) THEN [err |-> NoError, view |-> v, stxos |-> log]
               ELSE SpendInputs(v, log, txs[i], i, 1)
      IN  IF r.err # NoError THEN r ELSE SpendAllInputs(r.view, r.stxos, txs, i + 1)

\* connectTransactions (Outputs-Then-Inputs): add the outputs of every
\* transaction of the block, then spend the inputs of every transaction
connectTransactions(v, log, blk) ==
    SpendAllInputs(AddAllTxOuts(v, blk.txs, blk.height, 1), log, blk.txs, 1)

\* the output positions (txid, index) the block produces
BlockOutPoints(blk) ==
    UNION { { OutPoint(blk.txs[i].Hash, k - 1) : k \in 1..Len(blk.txs[i].TxOut) } :
            i \in 1..Len(blk.txs) }

\* the output positions of the transactions in the order the loops visit them
RECURSIVE OutPointSeq(_)
OutPointSeq(txs) ==
    IF txs = << >> THEN << >>
    ELSE [k \in 1..Len(Head(txs).TxOut) |-> OutPoint(Head(txs).Hash, k - 1)]
           \o OutPointSeq(Tail(txs))

\* the loops of checkBIP0030 from position i on; storeErr is the error the
\* store answers a fetch with, NoError when it answers with the entry
RECURSIVE OverwriteLoop(_, _, _, _, _)
OverwriteLoop(cache, v, prevOuts, i, storeErr) ==
    IF i > Len(prevOuts) THEN NoError
    ELSE
      LET inView == LookupEntry(v, prevOuts[i])
          utxo == IF inView = Nil THEN FetchEntry(cache, prevOuts[i]) ELSE inView
      IN  IF inView = Nil /\ storeErr # NoError THEN storeErr
          ELSE IF utxo # Nil /\ ~utxo.spent THEN "ErrOverwriteTx"
          ELSE OverwriteLoop(cache, v, prevOuts, i + 1, storeErr)

checkBIP0030(cache, blk, v, storeErr) ==
    OverwriteLoop(cache, v, OutPointSeq(blk.txs), 1, storeErr)


-----------------------------------------------------------------------------
(* checkConnectBlock: fork activation and script flags *)

\* the fork flags checkConnectBlock resolves for the node it connects
ConnectActivation(n, chainParams) ==
    [ uahfActive            |-> n.height > chainParams.UahfForkHeight,
      daaActive             |-> n.height > chainParams.DaaForkHeight,
      magneticAnomalyActive |-> n.height > chainParams.MagneticAnonomalyForkHeight,
      greatWallActive       |-> n.height > chainParams.GreatWallForkHeight,
      gravitonActive        |-> n.height > chainParams.GravitonForkHeight,
      phononActive          |-> n.height > chainParams.PhononForkHeight,
      cosmicInflationActive |-> n.parent.medianTime >= chainParams.CosmicInflationActivationTime,
      upgrade9Active        |-> n.height > chainParams.Upgrade9ForkHeight,
      upgrade11Active       |-> n.parent.medianTime >= chainParams.Upgrade11ActivationTime ]

\* ConnectScriptFlags as it would be with ScriptVerifyNullFail bundled with UAHF
ConnectScriptFlags_NullFailWithUahf(n, blk, chainParams) ==
    LET act == ConnectActivation(n, chainParams)
        enforceBIP0016 == n.timestamp >= Bip16Activation
    IN  (IF enforceBIP0016 THEN {"ScriptBip16"} ELSE {})
        \cup (IF blk.version >= 3 /\ n.height >= chainParams.BIP0066Height
              THEN {"ScriptVerifyDERSignatures"} ELSE {})
        \cup (IF blk.version >= 4 /\ n.height >= chainParams.BIP0065Height
              THEN {"ScriptVerifyCheckLockTimeVerify"} ELSE {})
        \cup (IF act.uahfActive
              THEN {"ScriptVerifyStrictEncoding", "ScriptVerifyBip143SigHash",
                    "ScriptVerifyNullFail"} ELSE {})
        \cup (IF act.daaActive
              THEN {"ScriptVerifyLowS"} ELSE {})
        \cup (IF act.magneticAnomalyActive
              THEN {"ScriptVerifySigPushOnly", "ScriptVerifyCleanStack",
                    "ScriptVerifyCheckDataSig"} ELSE {})
        \cup (IF act.greatWallActive
              THEN {"ScriptVerifySchnorr", "ScriptVerifyAllowSegwitRecovery"} ELSE {})
        \cup (IF act.gravitonActive
              THEN {"ScriptVerifyMinimalData", "ScriptVerifySchnorrMultisig"} ELSE {})
        \cup (IF act.phononActive
              THEN {"ScriptReportSigChecks", "ScriptVerifyReverseBytes"} ELSE {})
        \cup (IF act.cosmicInflationActive
              THEN {"ScriptVerify64BitIntegers", "ScriptVerifyNativeIntrospection"} ELSE {})
        \cup (IF act.upgrade9Active THEN {"ScriptAllowCashTokens"} ELSE {})
        \cup (IF act.upgrade11Active THEN {"ScriptAllowMay2025"} ELSE {})

\* the flags set before the input loop
ConnectScriptFlags(n, blk, chainParams) ==
    LET act == ConnectActivation(n, chainParams)
        enforceBIP0016 == n.timestamp >= Bip16Activation
    IN  (IF enforceBIP0016 THEN {"ScriptBip16"} ELSE {})
        \cup (IF blk.version >= 3 /\ n.height >= chainParams.BIP0066Height
              THEN {"ScriptVerifyDERSignatures"} ELSE {})
        \cup (IF blk.version >= 4 /\ n.height >= chainParams.BIP0065Height
              THEN {"ScriptVerifyCheckLockTimeVerify"} ELSE {})
        \cup (IF act.uahfActive
              THEN {"ScriptVerifyStrictEncoding", "ScriptVerifyBip143SigHash"} ELSE {})
        \cup (IF act.daaActive
              THEN {"ScriptVerifyLowS", "ScriptVerifyNullFail"} ELSE {})
        \cup (IF act.magneticAnomalyActive
              THEN {"ScriptVerifySigPushOnly", "ScriptVerifyCleanStack",
                    "ScriptVerifyCheckDataSig"} ELSE {})
        \cup (IF act.greatWallActive
              THEN {"ScriptVerifySchnorr", "ScriptVerifyAllowSegwitRecovery"} ELSE {})
        \cup (IF act.gravitonActive
              THEN {"ScriptVerifyMinimalData", "ScriptVerifySchnorrMultisig"} ELSE {})
        \cup (IF act.phononActive
              THEN {"ScriptReportSigChecks", "ScriptVerifyReverseBytes"} ELSE {})
        \cup (IF act.cosmicInflationActive
              THEN {"ScriptVerify64BitIntegers", "ScriptVerifyNativeIntrospection"} ELSE {})
        \cup (IF act.upgrade9Active THEN {"ScriptAllowCashTokens"} ELSE {})
        \cup (IF act.upgrade11Active THEN {"ScriptAllowMay2025"} ELSE {})

\* b.ablaState.getBlockSizeLimit(): a uint64, held as its high 32 bits and its
\* low 32 bits; the low parts of the model are below 2^31
getBlockSizeLimit(b) ==
    [high |-> b.ablaBlockSizeLimitHigh, low |-> b.ablaBlockSizeLimit]

\* uint32(x) of a uint64 x: the high 32 bits are dropped
Uint32(x) == x.low


-----------------------------------------------------------------------------
(* checkConnectBlock, one action per step of the function *)

Return(code) ==
    /\ result' = code
    /\ pc' = "done"

\* lines 994-1134: the genesis check, BIP0030, addInputUtxos and the script
\* flags; the UTXO store may fail, and then fails the first fetch made of it
CCB_Begin ==
    /\ pc = "begin"
    /\ \E storeErr \in {NoError, "errFetchEntry"} :
         LET chainParams == chain.chainParams
             fetches(outpoints) == \E op \in outpoints : LookupEntry(view, op) = Nil
             bip30 == IF ~isBIP0030Node(node) /\ node.height < chainParams.BIP0034Height
                      THEN checkBIP0030(utxoCache, block, view, storeErr)
                      ELSE NoError
             loaded == IF storeErr # NoError /\ fetches(Range(BlockInputs(block.txs)))
                       THEN storeErr ELSE NoError
         IN  IF node.hash = chainParams.GenesisHash
             THEN Return("ErrMissingTxOut") /\ UNCHANGED << view, scriptFlags >>
             ELSE IF bip30 # NoError
             THEN Return(bip30) /\ UNCHANGED << view, scriptFlags >>
             ELSE IF loaded # NoError
             THEN Return(loaded) /\ UNCHANGED << view, scriptFlags >>
             ELSE /\ view' = addInputUtxos(view, utxoCache, block)
                  /\ scriptFlags' = ConnectScriptFlags(node, block, chainParams)
                  /\ pc' = "inputs"
                  /\ UNCHANGED result
    /\ UNCHANGED lockVars
    /\ UNCHANGED << chain, utxoCache, node, block, stxos, txIdx, totalFees, connected,
                    checkedAt, seqLocks, scriptCall, arg, ret >>

\* where the input loop goes after transaction txIdx
NextTx ==
    IF txIdx < Len(block.txs)
    THEN /\ txIdx' = txIdx + 1
         /\ pc' = "inputs"
    ELSE /\ txIdx' = txIdx
         /\ pc' = IF ConnectActivation(node, chain.chainParams).magneticAnomalyActive
                  THEN "oti" ELSE "subsidy"

\* CCB_CheckInputs as it would be if the loop never connected the transaction
\* it has just checked
CCB_CheckInputs_NeverConnects ==
    /\ pc = "inputs"
    /\ LET tx == block.txs[txIdx]
           r == CheckTransactionInputs(tx, node.height, view, chain.chainParams)
       IN  /\ checkedAt' = Put(checkedAt, txIdx, connected)
           /\ IF r.err # NoError
              THEN Return(r.err) /\ UNCHANGED << txIdx, totalFees >>
              ELSE /\ totalFees' = totalFees + r.fee
                   /\ UNCHANGED result
                   /\ NextTx
    /\ UNCHANGED lockVars
    /\ UNCHANGED << chain, utxoCache, node, block, view, stxos, scriptFlags, connected,
                    seqLocks, scriptCall, arg, ret >>

\* lines 1146-1159: CheckTransactionInputs on transaction txIdx and the fee accumulator
CCB_CheckInputs ==
    /\ pc = "inputs"
    /\ LET tx == block.txs[txIdx]
           r == CheckTransactionInputs(tx, node.height, view, chain.chainParams)
           lastTotalFees == totalFees
           newTotalFees == totalFees + r.fee
       IN  /\ checkedAt' = Put(checkedAt, txIdx, connected)
           /\ IF r.err # NoError
              THEN Return(r.err) /\ UNCHANGED << txIdx, totalFees >>
              ELSE IF newTotalFees < lastTotalFees
              THEN Return("ErrBadFees") /\ UNCHANGED << txIdx, totalFees >>
              ELSE /\ totalFees' = newTotalFees
                   /\ UNCHANGED result
                   /\ IF ~ConnectActivation(node, chain.chainParams).magneticAnomalyActive
                      THEN pc' = "connect" /\ UNCHANGED txIdx
                      ELSE NextTx
    /\ UNCHANGED lockVars
    /\ UNCHANGED << chain, utxoCache, node, block, view, stxos, scriptFlags, connected,
                    seqLocks, scriptCall, arg, ret >>

\* connectTransaction that writes the entries of the view through to the store
CCB_ConnectTransaction_WritesStore ==
    /\ pc = "connect"
    /\ LET r == connectTransaction(view, stxos, block.txs[txIdx], txIdx, node.height)
       IN  /\ view' = r.view
           /\ stxos' = r.stxos
           /\ utxoCache' = [op \in DOMAIN utxoCache \cup DOMAIN r.view |->
                              IF op \in DOMAIN r.view THEN r.view[op] ELSE utxoCache[op]]
           /\ IF r.err # NoError
              THEN Return(r.err) /\ UNCHANGED << txIdx, connected >>
              ELSE /\ connected' = connected \cup {txIdx}
                   /\ NextTx
                   /\ UNCHANGED result
    /\ UNCHANGED lockVars
    /\ UNCHANGED << chain, node, block, totalFees, scriptFlags, checkedAt,
                    seqLocks, scriptCall, arg, ret >>

\* lines 1169-1174: connectTransaction on transaction txIdx, MagneticAnomaly inactive
CCB_ConnectTransaction ==
    /\ pc = "connect"
    /\ LET r == connectTransaction(view, stxos, block.txs[txIdx], txIdx, node.height)
       IN  /\ view' = r.view
           /\ stxos' = r.stxos
           /\ IF r.err # NoError
              THEN Return(r.err) /\ UNCHANGED << txIdx, connected >>
              ELSE /\ connected' = connected \cup {txIdx}
                   /\ NextTx
                   /\ UNCHANGED result
    /\ UNCHANGED lockVars
    /\ UNCHANGED << chain, utxoCache, node, block, totalFees, scriptFlags, checkedAt,
                    seqLocks, scriptCall, arg, ret >>

\* lines 1179-1184: connectTransactions, MagneticAnomaly active; an error of
\* connectTransactions makes checkConnectBlock return nil
CCB_ConnectTransactions ==
    /\ pc = "oti"
    /\ LET r == connectTransactions(view, stxos, block)
       IN  /\ view' = r.view
           /\ stxos' = r.stxos
           /\ IF r.err # NoError
              THEN Return(NoError) /\ UNCHANGED connected
              ELSE /\ connected' = 1..Len(block.txs)
                   /\ pc' = "subsidy"
                   /\ UNCHANGED result
    /\ UNCHANGED lockVars
    /\ UNCHANGED << chain, utxoCache, node, block, txIdx, totalFees, scriptFlags, checkedAt,
                    seqLocks, scriptCall, arg, ret >>

\* lines 1191-1202: the coinbase pays at most the subsidy plus the fees
CCB_Subsidy ==
    /\ pc = "subsidy"
    /\ LET totalSatoshiOut == SumSeq(block.txs[1].TxOut)
           expectedSatoshiOut == CalcBlockSubsidy(node.height, chain.chainParams) + totalFees
       IN  IF totalSatoshiOut > expectedSatoshiOut
           THEN Return("ErrBadCoinbaseValue")
           ELSE pc' = "csv" /\ UNCHANGED result
    /\ UNCHANGED lockVars
    /\ UNCHANGED << chain, utxoCache, node, block, view, stxos, txIdx, totalFees, scriptFlags,
                    connected, checkedAt, seqLocks, scriptCall, arg, ret >>

\* what deploymentState(node.parent, DeploymentCSV) may return: the state of
\* the deployment at the parent, or an error
DeploymentStates(parent) ==
    { [state |-> parent.csvState, err |-> NoError],
      [state |-> "ThresholdDefined", err |-> "errDeploymentState"] }

\* what calcSequenceLock may return for a transaction of the node
SequenceLocks(n) ==
    { [Seconds |-> -1, BlockHeight |-> -1, err |-> NoError],
      [Seconds |-> -1, BlockHeight |-> n.height - 1, err |-> NoError],
      [Seconds |-> -1, BlockHeight |-> n.height, err |-> NoError],
      [Seconds |-> n.parent.medianTime, BlockHeight |-> -1, err |-> NoError],
      [Seconds |-> -1, BlockHeight |-> -1, err |-> "errCalcSequenceLock"] }

\* what calcSequenceLock may return for the transactions of the block, one
\* lock each; a block that carries its locks (blk.locks) has those
BlockSequenceLocks(blk, n) ==
    IF "locks" \in DOMAIN blk THEN { blk.locks }
    ELSE [1..Len(blk.txs) -> SequenceLocks(n)]

\* the outcome of the loop over the transactions, given their sequence locks
RECURSIVE SequenceLockLoop(_, _, _)
SequenceLockLoop(locks, n, i) ==
    IF i > Len(locks) THEN NoError
    ELSE IF locks[i].err # NoError THEN locks[i].err
    ELSE IF ~SequenceLockActive(locks[i], n.height, n.parent.medianTime)
         THEN "ErrUnfinalizedTx"
    ELSE SequenceLockLoop(locks, n, i + 1)

\* lines 1218-1253: the CSV deployment state, its script flag and the sequence locks
CCB_SequenceLocks ==
    /\ pc = "csv"
    /\ \E deployment \in DeploymentStates(node.parent) :
         IF deployment.err # NoError
         THEN Return(deployment.err) /\ UNCHANGED << scriptFlags, seqLocks >>
         ELSE IF deployment.state = "ThresholdActive"
         THEN /\ scriptFlags' = scriptFlags \cup {"ScriptVerifyCheckSequenceVerify"}
              /\ \E locks \in BlockSequenceLocks(block, node) :
                   LET err == SequenceLockLoop(locks, node, 1)
                   IN  /\ seqLocks' = locks
                       /\ IF err # NoError
                          THEN Return(err)
                          ELSE pc' = "scripts" /\ UNCHANGED result
         ELSE /\ pc' = "scripts"
              /\ UNCHANGED << scriptFlags, seqLocks, result >>
    /\ UNCHANGED lockVars
    /\ UNCHANGED << chain, utxoCache, node, block, view, stxos, txIdx, totalFees,
                    connected, checkedAt, scriptCall, arg, ret >>

\* the script step with a node at the height of the checkpoint verified too
CCB_Scripts_RunsAtCheckpoint ==
    /\ pc = "scripts"
    /\ LET checkpoint == chain.latestCheckpoint
           runScripts == ~(checkpoint # Nil /\ node.height < checkpoint.Height)
           maxSigChecks == Uint32(getBlockSizeLimit(chain)) \div BlockMaxBytesMaxSigChecksRatio
       IN  IF runScripts
           THEN \E scriptsOk \in BOOLEAN :
                  /\ scriptCall' = [called |-> TRUE, scriptFlags |-> scriptFlags,
                                    maxSigChecks |-> maxSigChecks]
                  /\ Return(IF scriptsOk THEN NoError ELSE "ErrScriptValidation")
           ELSE Return(NoError) /\ UNCHANGED scriptCall
    /\ UNCHANGED lockVars
    /\ UNCHANGED << chain, utxoCache, node, block, view, stxos, txIdx, totalFees, scriptFlags,
                    connected, checkedAt, seqLocks, arg, ret >>

\* lines 1210-1214 and 1259-1268: checkBlockScripts unless the node is at or
\* before the latest checkpoint; the interpreter's verdict is an input
CCB_Scripts ==
    /\ pc = "scripts"
    /\ LET checkpoint == chain.latestCheckpoint
           runScripts == ~(checkpoint # Nil /\ node.height <= checkpoint.Height)
           maxSigChecks == Uint32(getBlockSizeLimit(chain)) \div BlockMaxBytesMaxSigChecksRatio
       IN  IF runScripts
           THEN \E scriptsOk \in BOOLEAN :
                  /\ scriptCall' = [called |-> TRUE, scriptFlags |-> scriptFlags,
                                    maxSigChecks |-> maxSigChecks]
                  /\ Return(IF scriptsOk THEN NoError ELSE "ErrScriptValidation")
           ELSE Return(NoError) /\ UNCHANGED scriptCall
    /\ UNCHANGED lockVars
    /\ UNCHANGED << chain, utxoCache, node, block, view, stxos, txIdx, totalFees, scriptFlags,
                    connected, checkedAt, seqLocks, arg, ret >>

checkConnectBlock ==
    \/ CCB_Begin
    \/ CCB_CheckInputs
    \/ CCB_ConnectTransaction
    \/ CCB_ConnectTransactions
    \/ CCB_Subsidy
    \/ CCB_SequenceLocks
    \/ CCB_Scripts


-----------------------------------------------------------------------------
(* The chain the model validates against *)

\* chaincfg.Params: the fork heights keep the order they have on the main
\* network, one hundred blocks apart; the activation times are the main network's
ChainParams(net) ==
    [ Net                           |-> net,
      GenesisHash                   |-> "genesis",
      BIP0034Height                 |-> 200,
      BIP0066Height                 |-> 300,
      BIP0065Height                 |-> 400,
      UahfForkHeight                |-> 500,
      DaaForkHeight                 |-> 600,
      MagneticAnonomalyForkHeight   |-> 700,
      GreatWallForkHeight           |-> 800,
      GravitonForkHeight            |-> 900,
      PhononForkHeight              |-> 1000,
      Upgrade9ForkHeight            |-> 1100,
      ABLAForkHeight                |-> 1200,
      CosmicInflationActivationTime |-> 1652616000,
      Upgrade11ActivationTime       |-> 1747310400,
      SubsidyReductionInterval      |-> IF net = "RegTest" THEN 150 ELSE 210000,
      CoinbaseMaturity              |-> 100 ]

\* the BlockChain object; the limit of the ABLA controller is
\* ablaBlockSizeLimitHigh * 2^32 + ablaBlockSizeLimit
BlockChain(net, excessiveBlockSize, ablaLimit, checkpoint) ==
    [ chainParams            |-> ChainParams(net),
      excessiveBlockSize     |-> excessiveBlockSize,
      ablaBlockSizeLimit     |-> ablaLimit,
      ablaBlockSizeLimitHigh |-> 0,
      latestCheckpoint       |-> checkpoint ]

\* newBlockNode: the node of a header at the given height on the given parent
BlockNode(height, hash, timestamp, medianTime, csvState) ==
    [ height    |-> height,
      hash      |-> hash,
      timestamp |-> timestamp,
      parent    |-> [height |-> height - 1, medianTime |-> medianTime, csvState |-> csvState] ]

-----------------------------------------------------------------------------
(* Blocks and stores of the model *)

\* the most inputs a transaction of the model has
MaxTxIn == 2

\* txids: the coinbase, the two other transactions of a block
TxIds == << 9, 1, 2 >>

CoinbaseHash == TxIds[1]

TxA == TxIds[2]

TxB == TxIds[3]

\* the store: two ordinary unspent outputs, a coinbase output created at
\* height 601, an output already spent; (14, 0) is in no store
StoreOutPoints ==
    << OutPoint(11, 0), OutPoint(11, 1), OutPoint(12, 0), OutPoint(13, 0), OutPoint(14, 0) >>

ModelStore ==
    (OutPoint(11, 0) :> Entry(3, 10, FALSE, FALSE))
      @@ (OutPoint(11, 1) :> Entry(2, 10, FALSE, FALSE))
      @@ (OutPoint(12, 0) :> Entry(2, 601, TRUE, FALSE))
      @@ (OutPoint(13, 0) :> Entry(1, 10, FALSE, TRUE))

EmptyView == [op \in {} |-> Nil]

\* the subsequences of pool with 1..MaxTxIn elements: input lists without duplicates
RECURSIVE SubSeqs(_)
SubSeqs(pool) ==
    IF pool = << >> THEN { << >> }
    ELSE LET rest == SubSeqs(Tail(pool))
         IN  rest \cup { << Head(pool) >> \o r : r \in rest }

InputLists(pool) ==
    { ins \in SubSeqs(pool) : Len(ins) >= 1 /\ Len(ins) <= MaxTxIn }

Tx(hash, ins, outs) == [Hash |-> hash, TxIn |-> ins, TxOut |-> outs]

CoinbaseTx(value) == Tx(CoinbaseHash, << NullOutPoint >>, << value >>)

\* the non-coinbase transactions with the given txid: inputs from the store
\* or from the other transaction of the block, one output
Transactions(hash, other) ==
    { Tx(hash, ins, << v >>) :
        ins \in InputLists(StoreOutPoints \o << OutPoint(other, 0) >>), v \in {1, 3} }

\* the transaction lists of sanity-checked blocks: a coinbase first, no other
\* coinbase, distinct txids, and txids ascending after the coinbase when
\* MagneticAnomaly is active
BlockTxs(coinbaseValues, magneticAnomaly) ==
    LET cbs == { CoinbaseTx(v) : v \in coinbaseValues }
        as == Transactions(TxA, TxB)
        bs == Transactions(TxB, TxA)
    IN  { << cb >> : cb \in cbs }
          \cup { << cb, a >> : cb \in cbs, a \in as }
          \cup { << cb, a, b >> : cb \in cbs, a \in as, b \in bs }
          \cup (IF magneticAnomaly THEN {}
                ELSE { << cb, b, a >> : cb \in cbs, a \in as, b \in bs })

Block(height, version, txs) == [height |-> height, version |-> version, txs |-> txs]

-----------------------------------------------------------------------------
(* Specification of checkConnectBlock over the blocks of the model *)

NotCalled == [fn |-> "none"]

\* no caller of an exported function: the lock free, no call in progress
NoCallers ==
    /\ chainLock = FALSE
    /\ bestChain = [tip |-> Nil]
    /\ calls = << >>

Init ==
    /\ \E net \in {"MainNet", "RegTest"} :
         chain = BlockChain(net, 32000000, 32000000, Nil)
    /\ utxoCache = ModelStore
    /\ \E height \in {700, 701} :
         /\ node = BlockNode(height, "block", 1700000000, 1699990000, "ThresholdStarted")
         /\ \E txs \in BlockTxs({ CalcBlockSubsidy(height, chain.chainParams) + d : d \in {0, 2, 3} },
                                height > 700) :
              block = Block(height, 4, txs)
    /\ view = EmptyView
    /\ stxos = << >>
    /\ pc = "begin"
    /\ txIdx = 1
    /\ totalFees = 0
    /\ scriptFlags = {}
    /\ connected = {}
    /\ checkedAt = [i \in {} |-> {}]
    /\ seqLocks = << >>
    /\ scriptCall = NoCall
    /\ result = "running"
    /\ arg = NotCalled
    /\ ret = NotCalled
    /\ NoCallers

Next ==
    checkConnectBlock

Spec == Init /\ [][Next]_vars


-----------------------------------------------------------------------------
(* Claims about checkConnectBlock *)

MagneticAnomalyActive == ConnectActivation(node, chain.chainParams).magneticAnomalyActive

Succeeded == pc = "done" /\ result = NoError

\* the (transaction, input) positions of the non-coinbase inputs of the block
InputPositions ==
    { p \in (1..Len(block.txs)) \X (1..MaxTxIn + 1) :
        ~IsCoinBase(block.txs[p[1]]) /\ p[2] <= Len(block.txs[p[1]].TxIn) }

InputAt(p) == block.txs[p[1]].TxIn[p[2]]

\* the input at position p was spent while the view held its outpoint unspent
SpentWhileUnspent(p) ==
    \E k \in 1..Len(stxos) :
        /\ stxos[k].tx = p[1]
        /\ stxos[k].input = p[2]
        /\ stxos[k].outpoint = InputAt(p)
        /\ stxos[k].entry # Nil
        /\ ~stxos[k].entry.spent

NoDoubleSpendInBlock ==
    \A p, q \in InputPositions : p # q => InputAt(p) # InputAt(q)

\* C1: a block checkConnectBlock accepts, MagneticAnomaly active or not, spends
\* with every non-coinbase input an outpoint that was present and unspent when
\* it was spent, and spends no outpoint with more than one input.
C1_SpentPresentUnspentOnce ==
    Succeeded => /\ \A p \in InputPositions : SpentWhileUnspent(p)
                 /\ NoDoubleSpendInBlock

\* C2: a block checkConnectBlock accepts pays with its coinbase at most
\* CalcBlockSubsidy(node.height) plus the fees of its transactions.
C2_CoinbaseWithinSubsidyAndFees ==
    Succeeded =>
        SumSeq(block.txs[1].TxOut)
            <= CalcBlockSubsidy(node.height, chain.chainParams) + totalFees

\* C3: checkConnectBlock never reports success for a block whose transactions
\* could not all be connected; in particular a failure of connectTransactions
\* under MagneticAnomaly is returned as an error.
C3_ConnectFailureIsReturned ==
    Succeeded => connected = 1..Len(block.txs)


\* the input at position p references an output of a transaction that comes
\* later in the block, and of nothing else: the store does not hold the outpoint
SpendsLaterOutput(p) ==
    /\ InputAt(p) \notin DOMAIN utxoCache
    /\ \E i \in (p[1] + 1)..Len(block.txs) : InputAt(p) \in BlockOutPoints([txs |-> << block.txs[i] >>])

\* the input at position p references an output of an earlier transaction of the block
SpendsEarlierOutput(p) ==
    \E i \in 1..(p[1] - 1) : InputAt(p) \in BlockOutPoints([txs |-> << block.txs[i] >>])

\* the view holds the outpoint unspent and mature for the node
Spendable(op) ==
    LET e == LookupEntry(view, op)
    IN  /\ e # Nil
        /\ ~e.spent
        /\ e.isCoinBase => node.height - e.blockHeight >= chain.chainParams.CoinbaseMaturity

\* C6: with MagneticAnomaly inactive every transaction is connected right
\* after its own input checks, so that transaction i is checked against a view
\* to which exactly the transactions before it are connected, and a
\* transaction spending an output only a later transaction creates is rejected,
\* with ErrMissingTxOut when its inputs before that one are spendable; with
\* MagneticAnomaly active every transaction is checked with none connected.
C6_ConnectOrder ==
    /\ ~MagneticAnomalyActive =>
         /\ \A i \in DOMAIN checkedAt : checkedAt[i] = 1..(i - 1)
         /\ pc = "inputs" => connected = 1..(txIdx - 1)
         /\ pc = "connect" => connected = 1..(txIdx - 1) /\ txIdx \in DOMAIN checkedAt
         /\ pc \in {"subsidy", "csv", "scripts"} => connected = 1..Len(block.txs)
         /\ \A p \in InputPositions :
              (SpendsLaterOutput(p) /\ p[1] \in DOMAIN checkedAt) =>
                 /\ pc = "done"
                 /\ result # NoError
                 /\ p[1] \notin connected
                 /\ (\A j \in 1..(p[2] - 1) : Spendable(block.txs[p[1]].TxIn[j]))
                      => result = "ErrMissingTxOut"
    /\ MagneticAnomalyActive =>
         /\ \A i \in DOMAIN checkedAt : checkedAt[i] = {}
         /\ pc \in {"begin", "inputs", "oti"} => connected = {}

\* an accepted block, MagneticAnomaly inactive, in which a transaction spends
\* an output of an earlier transaction of the block
C6_Witness ==
    /\ Succeeded
    /\ ~MagneticAnomalyActive
    /\ \E p \in InputPositions : SpendsEarlierOutput(p) /\ SpentWhileUnspent(p)

\* a block rejected with ErrMissingTxOut, MagneticAnomaly inactive, for an
\* input spending the output of a later transaction
C6_WitnessLater ==
    /\ pc = "done"
    /\ result = "ErrMissingTxOut"
    /\ ~MagneticAnomalyActive
    /\ \E p \in InputPositions : SpendsLaterOutput(p) /\ p[1] = txIdx /\ p[1] \in DOMAIN checkedAt

\* all transactions of a three-transaction block checked, MagneticAnomaly
\* active, nothing connected yet
C6_WitnessOTI ==
    /\ pc = "oti"
    /\ MagneticAnomalyActive
    /\ Len(block.txs) = 3
    /\ DOMAIN checkedAt = 1..3


-----------------------------------------------------------------------------
(* CheckTransactionInputs in isolation *)

\* the view the calls run against: ordinary outputs, a coinbase output created
\* at height 100, spent outputs (one of them an immature coinbase), an output
\* worth MaxSatoshi; (27, 0) is absent
InputsView ==
    (OutPoint(21, 0) :> Entry(3, 10, FALSE, FALSE))
      @@ (OutPoint(22, 0) :> Entry(2, 10, FALSE, FALSE))
      @@ (OutPoint(23, 0) :> Entry(4, 100, TRUE, FALSE))
      @@ (OutPoint(24, 0) :> Entry(1, 10, FALSE, TRUE))
      @@ (OutPoint(25, 0) :> Entry(1, 190, TRUE, TRUE))
      @@ (OutPoint(26, 0) :> Entry(MaxSatoshi, 10, FALSE, FALSE))

InputsPool ==
    { OutPoint(21, 0), OutPoint(22, 0), OutPoint(23, 0), OutPoint(24, 0), OutPoint(25, 0),
      OutPoint(26, 0), OutPoint(27, 0) }

\* the sequences over S of length 1..n without repetition
RECURSIVE DistinctSeqs(_, _)
DistinctSeqs(S, n) ==
    IF n = 0 THEN {}
    ELSE LET shorter == DistinctSeqs(S, n - 1)
         IN  { << x >> : x \in S } \cup shorter
               \cup UNION { { Append(q, x) : x \in S \ Range(q) } : q \in shorter }

\* sanity-checked transactions: a coinbase, and transactions with distinct non-null inputs
InputsTxs ==
    { CoinbaseTx(baseSubsidy) }
      \cup { Tx(5, ins, outs) :
               ins \in DistinctSeqs(InputsPool, MaxTxIn),
               outs \in { << 0 >>, << 2 >>, << 3 >>, << 2, 3 >>, << 6 >>, << MaxSatoshi >> } }

IdleInit ==
    /\ chain = BlockChain("MainNet", 32000000, 32000000, Nil)
    /\ utxoCache = ModelStore
    /\ node = BlockNode(701, "block", 1700000000, 1699990000, "ThresholdStarted")
    /\ block = Block(701, 4, << CoinbaseTx(baseSubsidy) >>)
    /\ view = EmptyView
    /\ stxos = << >>
    /\ pc = "idle"
    /\ txIdx = 1
    /\ totalFees = 0
    /\ scriptFlags = {}
    /\ connected = {}
    /\ checkedAt = [i \in {} |-> {}]
    /\ seqLocks = << >>
    /\ scriptCall = NoCall
    /\ result = "running"
    /\ arg = NotCalled
    /\ ret = NotCalled
    /\ NoCallers

CallCheckTransactionInputs ==
    /\ arg = NotCalled
    /\ \E tx \in InputsTxs, txHeight \in {199, 200} :
         /\ arg' = [fn |-> "CheckTransactionInputs", tx |-> tx, txHeight |-> txHeight,
                    utxoView |-> InputsView, chainParams |-> chain.chainParams]
         /\ ret' = CheckTransactionInputs(tx, txHeight, InputsView, chain.chainParams)
    /\ UNCHANGED ccbVars

SpecInputs == IdleInit /\ [][CallCheckTransactionInputs]_vars

\* the amounts of the entries the inputs 1..n of the call's transaction
\* reference (an absent entry counts for nothing)
RECURSIVE InputAmounts(_)
InputAmounts(n) ==
    IF n = 0 THEN 0
    ELSE LET utxo == LookupEntry(arg.utxoView, arg.tx.TxIn[n])
         IN  InputAmounts(n - 1) + (IF utxo = Nil THEN 0 ELSE utxo.amount)

CalledInputs == arg.fn = "CheckTransactionInputs"

AllInputsPresent == \A j \in 1..Len(arg.tx.TxIn) : arg.tx.TxIn[j] \in DOMAIN arg.utxoView

\* what is wrong with input j, the inputs before it being present
InputDefect(j) ==
    LET op == arg.tx.TxIn[j]
        utxo == LookupEntry(arg.utxoView, op)
    IN  IF utxo = Nil THEN "ErrMissingTxOut"
        ELSE IF utxo.spent THEN "ErrSpentTxOut"
        ELSE IF utxo.isCoinBase /\ ~(arg.txHeight - utxo.blockHeight >= arg.chainParams.CoinbaseMaturity)
             THEN "ErrImmatureSpend"
        ELSE IF utxo.amount < 0 \/ utxo.amount > MaxSatoshi \/ InputAmounts(j) > MaxSatoshi
             THEN "ErrBadTxOutValue"
        ELSE NoError

\* C4: the fee of a coinbase is 0; a non-coinbase transaction passes only if
\* the amounts its inputs reference cover its outputs, ErrSpendTooHigh being
\* the error exactly when acceptable inputs do not cover them; the fee is
\* total_in - total_out and never negative.
C4_FeeIsInputsMinusOutputs ==
    CalledInputs =>
      /\ IsCoinBase(arg.tx) => ret.fee = 0 /\ ret.err = NoError
      /\ (~IsCoinBase(arg.tx) /\ ret.err = NoError) =>
           /\ AllInputsPresent
           /\ InputAmounts(Len(arg.tx.TxIn)) >= SumSeq(arg.tx.TxOut)
           /\ ret.fee = InputAmounts(Len(arg.tx.TxIn)) - SumSeq(arg.tx.TxOut)
      /\ ret.fee >= 0
      /\ ~IsCoinBase(arg.tx) =>
           (ret.err = "ErrSpendTooHigh"
              <=> /\ \A j \in 1..Len(arg.tx.TxIn) : InputDefect(j) = NoError
                  /\ InputAmounts(Len(arg.tx.TxIn)) < SumSeq(arg.tx.TxOut))

\* a call that returned a positive fee, and one that returned ErrSpendTooHigh
C4_Witness ==
    /\ CalledInputs
    /\ ~IsCoinBase(arg.tx)
    /\ ret.err = NoError
    /\ ret.fee > 0
    /\ Len(arg.tx.TxIn) = 2

C4_WitnessSpendTooHigh ==
    CalledInputs /\ ret.err = "ErrSpendTooHigh"

\* C5: a non-coinbase transaction passes only if every input references an
\* entry of the view that is unspent and, when a coinbase output, at least
\* CoinbaseMaturity blocks old; otherwise the error is that of the first
\* failing input: ErrMissingTxOut when absent, ErrSpentTxOut when spent,
\* ErrImmatureSpend when immature.  A coinbase output created at height 100 is
\* immature at height 199 and spendable at height 200.
C5_InputsPresentUnspentMature ==
    (CalledInputs /\ ~IsCoinBase(arg.tx)) =>
      /\ ret.err = NoError =>
           \A j \in 1..Len(arg.tx.TxIn) :
              LET utxo == LookupEntry(arg.utxoView, arg.tx.TxIn[j])
              IN  /\ utxo # Nil
                  /\ ~utxo.spent
                  /\ utxo.isCoinBase =>
                       arg.txHeight - utxo.blockHeight >= arg.chainParams.CoinbaseMaturity
      /\ \A j \in 1..Len(arg.tx.TxIn) :
           (InputDefect(j) # NoError /\ \A k \in 1..(j - 1) : InputDefect(k) = NoError)
              => ret.err = InputDefect(j)
      /\ (arg.chainParams.CoinbaseMaturity = 100 /\ arg.tx.TxIn = << OutPoint(23, 0) >>) =>
           /\ arg.txHeight = 199 => ret.err = "ErrImmatureSpend"
           /\ (arg.txHeight = 200 /\ SumSeq(arg.tx.TxOut) <= 4) => ret.err = NoError

\* the coinbase output created at height 100, spent at height 199 as the
\* second input of a transaction: ErrImmatureSpend
C5_Witness ==
    /\ CalledInputs
    /\ arg.tx.TxIn = << OutPoint(21, 0), OutPoint(23, 0) >>
    /\ arg.txHeight = 199
    /\ ret.err = "ErrImmatureSpend"

C5_WitnessMature ==
    /\ CalledInputs
    /\ arg.tx.TxIn = << OutPoint(23, 0) >>
    /\ arg.txHeight = 200
    /\ ret.err = NoError


-----------------------------------------------------------------------------
(* IsFinalizedTransaction, ExtractCoinbaseHeight, checkSerializedHeight *)

\* txscript.LockTimeThreshold
LockTimeThreshold == 500000000

\* txscript.OP_0, OP_1, OP_16
OP_0 == 0

OP_1 == 81

OP_16 == 96

ShouldHaveSerializedBlockHeight(header) ==
    header.Version >= serializedHeightVersion

\* IsFinalizedTransaction with a lock time that has just been reached counted
\* as passed
IsFinalizedTransaction_NotStrict(tx, blockHeight, blockTime) ==
    IF tx.LockTime = 0 THEN TRUE
    ELSE
      LET blockTimeOrHeight ==
              IF tx.LockTime < LockTimeThreshold THEN blockHeight ELSE blockTime
      IN  IF tx.LockTime <= blockTimeOrHeight THEN TRUE
          ELSE \A i \in 1..Len(tx.TxIn) : tx.TxIn[i].Sequence = MaxUint32

IsFinalizedTransaction(tx, blockHeight, blockTime) ==
    IF tx.LockTime = 0 THEN TRUE
    ELSE
      LET blockTimeOrHeight ==
              IF tx.LockTime < LockTimeThreshold THEN blockHeight ELSE blockTime
      IN  IF tx.LockTime < blockTimeOrHeight THEN TRUE
          ELSE \A i \in 1..Len(tx.TxIn) : tx.TxIn[i].Sequence = MaxUint32

\* int32 of the little-endian uint64 in the 8-byte buffer the first
\* serializedLen bytes after the length byte are copied to: its low four bytes,
\* read as a two's-complement number
Int32LittleEndian(sigScript, serializedLen) ==
    LET Byte(k) == IF k <= serializedLen /\ k <= 8 THEN sigScript[k + 1] ELSE 0
        top == IF Byte(4) >= 128 THEN Byte(4) - 256 ELSE Byte(4)
    IN  Byte(1) + 256 * Byte(2) + 65536 * Byte(3) + 16777216 * top

ExtractCoinbaseHeight(coinbaseTx) ==
    LET sigScript == coinbaseTx.TxIn[1].SignatureScript
    IN  IF Len(sigScript) < 1
        THEN [height |-> 0, err |-> "ErrMissingCoinbaseHeight"]
        ELSE
          LET opcode == sigScript[1]
              serializedLen == sigScript[1]
          IN  IF opcode = OP_0 THEN [height |-> 0, err |-> NoError]
              ELSE IF opcode >= OP_1 /\ opcode <= OP_16
                   THEN [height |-> opcode - (OP_1 - 1), err |-> NoError]
              ELSE IF Len(sigScript) - 1 < serializedLen
                   THEN [height |-> 0, err |-> "ErrMissingCoinbaseHeight"]
              ELSE [height |-> Int32LittleEndian(sigScript, serializedLen), err |-> NoError]

\* checkSerializedHeight that does not compare the height it extracted
checkSerializedHeight_NoCompare(coinbaseTx, wantHeight) ==
    ExtractCoinbaseHeight(coinbaseTx).err

checkSerializedHeight(coinbaseTx, wantHeight) ==
    LET r == ExtractCoinbaseHeight(coinbaseTx)
    IN  IF r.err # NoError THEN r.err
        ELSE IF r.height # wantHeight THEN "ErrBadCoinbaseHeight"
        ELSE NoError

-----------------------------------------------------------------------------
(* checkBlockHeaderContext and checkBlockContext.                          *)
(* A block is given by what the two functions read of it: its height, its  *)
(* header, its serialized size, and its transactions as a sequence of      *)
(* [tx, count] runs (count copies of tx in a row).  env holds what the     *)
(* calls into the rest of the package return: calcNextRequiredDifficulty,  *)
(* verifyCheckpoint, findPreviousCheckpoint, deploymentState.              *)

\* len(block.MsgBlock().Transactions)
RECURSIVE NumTransactions(_)
NumTransactions(txs) ==
    IF txs = << >> THEN 0 ELSE Head(txs).count + NumTransactions(Tail(txs))

\* checkBlockHeaderContext as its comment describes BFFastAdd: every check
\* but those against the checkpoints skipped
checkBlockHeaderContext_FastAddSkipsVersion(b, header, prevNode, flags, env) ==
    LET blockHeight == prevNode.height + 1
        fastAdd == "BFFastAdd" \in flags
        expected == env.calcNextRequiredDifficulty
        checkpoint == env.findPreviousCheckpoint
        params == b.chainParams
    IN  IF ~fastAdd /\ expected.err # NoError THEN expected.err
        ELSE IF ~fastAdd /\ header.Bits # expected.bits THEN "ErrUnexpectedDifficulty"
        ELSE IF ~fastAdd /\ ~(header.Timestamp > prevNode.medianTime) THEN "ErrTimeTooOld"
        ELSE IF ~env.verifyCheckpoint THEN "ErrBadCheckpoint"
        ELSE IF checkpoint.err # NoError THEN checkpoint.err
        ELSE IF checkpoint.node # Nil /\ blockHeight < checkpoint.node.height
             THEN "ErrForkTooOld"
        ELSE IF /\ ~fastAdd
                /\ \/ header.Version < 2 /\ blockHeight >= params.BIP0034Height
                   \/ header.Version < 3 /\ blockHeight >= params.BIP0066Height
                   \/ header.Version < 4 /\ blockHeight >= params.BIP0065Height
             THEN "ErrBlockVersionTooOld"
        ELSE NoError

checkBlockHeaderContext(b, header, prevNode, flags, env) ==
    LET blockHeight == prevNode.height + 1
        fastAdd == "BFFastAdd" \in flags
        expected == env.calcNextRequiredDifficulty
        checkpoint == env.findPreviousCheckpoint
        params == b.chainParams
    IN  IF ~fastAdd /\ expected.err # NoError THEN expected.err
        ELSE IF ~fastAdd /\ header.Bits # expected.bits THEN "ErrUnexpectedDifficulty"
        ELSE IF ~fastAdd /\ ~(header.Timestamp > prevNode.medianTime) THEN "ErrTimeTooOld"
        ELSE IF ~env.verifyCheckpoint THEN "ErrBadCheckpoint"
        ELSE IF checkpoint.err # NoError THEN checkpoint.err
        ELSE IF checkpoint.node # Nil /\ blockHeight < checkpoint.node.height
             THEN "ErrForkTooOld"
        ELSE IF \/ header.Version < 2 /\ blockHeight >= params.BIP0034Height
                \/ header.Version < 3 /\ blockHeight >= params.BIP0066Height
                \/ header.Version < 4 /\ blockHeight >= params.BIP0065Height
             THEN "ErrBlockVersionTooOld"
        ELSE NoError

\* the fork flags as they would be if resolved from the parent's height
ContextActivation_FromParent(blk, chainParams) ==
    [ uahfActive |-> blk.height - 1 > chainParams.UahfForkHeight,
      ablaActive |-> blk.height - 1 > chainParams.ABLAForkHeight ]

\* the fork flags checkBlockContext resolves for the block
ContextActivation(blk, chainParams) ==
    [ uahfActive |-> blk.height > chainParams.UahfForkHeight,
      ablaActive |-> blk.height > chainParams.ABLAForkHeight ]

\* the checks of the transactions made unless BFFastAdd is set
ContextTransactionChecks(b, blk, prevNode, env) ==
    LET header == blk.header
        deployment == env.deploymentState
        blockTime == IF deployment.state = "ThresholdActive"
                     THEN prevNode.medianTime ELSE header.Timestamp
        blockHeight == prevNode.height + 1
    IN  IF deployment.err # NoError THEN deployment.err
        ELSE IF \E i \in 1..Len(blk.txs) :
                   ~IsFinalizedTransaction(blk.txs[i].tx, blockHeight, blockTime)
             THEN "ErrUnfinalizedTx"
        ELSE IF ShouldHaveSerializedBlockHeight(header)
                /\ blockHeight >= b.chainParams.BIP0034Height
             THEN checkSerializedHeight(blk.txs[1].tx, blockHeight)
        ELSE NoError

\* checkBlockContext as it would be with the first-block floor at sizes
\* strictly below LegacyMaxBlockSize
checkBlockContext_FloorOffByOne(b, blk, prevNode, flags, env) ==
    LET err == checkBlockHeaderContext(b, blk.header, prevNode, flags, env)
        act == ContextActivation(blk, b.chainParams)
        maxBlockSize == MaxBlockSize(b, act.uahfActive, act.ablaActive)
        numTx == NumTransactions(blk.txs)
    IN  IF err # NoError THEN err
        ELSE IF numTx > maxBlockSize THEN "ErrBlockTooBig"
        ELSE IF /\ b.chainParams.Net \in {"MainNet", "TestNet3"}
                /\ blk.height = b.chainParams.UahfForkHeight + 1
                /\ blk.serializeSize < LegacyMaxBlockSize
             THEN "ErrBlockTooSmall"
        ELSE IF blk.serializeSize > maxBlockSize THEN "ErrBlockTooBig"
        ELSE IF "BFFastAdd" \notin flags THEN ContextTransactionChecks(b, blk, prevNode, env)
        ELSE NoError

checkBlockContext(b, blk, prevNode, flags, env) ==
    LET err == checkBlockHeaderContext(b, blk.header, prevNode, flags, env)
        act == ContextActivation(blk, b.chainParams)
        maxBlockSize == MaxBlockSize(b, act.uahfActive, act.ablaActive)
        numTx == NumTransactions(blk.txs)
    IN  IF err # NoError THEN err
        ELSE IF numTx > maxBlockSize THEN "ErrBlockTooBig"
        ELSE IF /\ b.chainParams.Net \in {"MainNet", "TestNet3"}
                /\ blk.height = b.chainParams.UahfForkHeight + 1
                /\ blk.serializeSize <= LegacyMaxBlockSize
             THEN "ErrBlockTooSmall"
        ELSE IF blk.serializeSize > maxBlockSize THEN "ErrBlockTooBig"
        ELSE IF "BFFastAdd" \notin flags THEN ContextTransactionChecks(b, blk, prevNode, env)
        ELSE NoError


-----------------------------------------------------------------------------
(* Specification of checkBlockContext and MaxBlockSize over model inputs *)

\* the configured excessive block size and the ABLA controller's limit
ModelExcessiveBlockSize == 32 * 1000000

ModelAblaBlockSizeLimit == 33 * 1000000

\* the parent's median time and a header timestamp after it
ModelTimes == [parentMedian |-> 1699990000, header |-> 1700000000]

ParentMedianTime == ModelTimes.parentMedian

HeaderTimestamp == ModelTimes.header

ContextTx(lockTime, sequence, sigScript) ==
    [ LockTime |-> lockTime,
      TxIn     |-> << [Sequence |-> sequence, SignatureScript |-> sigScript] >> ]

\* the serialized height h as a coinbase script pushes it: two bytes, little-endian
HeightScript(h) == << 2, h % 256, h \div 256 >>

ContextBlock(height, version, timestamp, serializeSize, txs) ==
    [ height        |-> height,
      header        |-> [Version |-> version, Bits |-> 1, Timestamp |-> timestamp],
      serializeSize |-> serializeSize,
      txs           |-> txs ]

\* count copies of a finalized transaction after a coinbase carrying height h
PlainTxs(h, count) ==
    << [tx |-> ContextTx(0, MaxUint32, HeightScript(h)), count |-> 1],
       [tx |-> ContextTx(0, MaxUint32, << >>), count |-> count] >>

\* the parent node of a block
PrevNode(height) == [height |-> height, medianTime |-> ParentMedianTime]

\* every call outside the file succeeding, no checkpoint
EnvPass ==
    [ calcNextRequiredDifficulty |-> [bits |-> 1, err |-> NoError],
      verifyCheckpoint           |-> TRUE,
      findPreviousCheckpoint     |-> [node |-> Nil, err |-> NoError],
      deploymentState            |-> [state |-> "ThresholdActive", err |-> NoError] ]

Envs(prevHeight) ==
    { [ calcNextRequiredDifficulty |-> d,
        verifyCheckpoint           |-> v,
        findPreviousCheckpoint     |-> c,
        deploymentState            |-> s ] :
        d \in { [bits |-> 1, err |-> NoError], [bits |-> 2, err |-> NoError],
                [bits |-> 0, err |-> "errCalcNextRequiredDifficulty"] },
        v \in BOOLEAN,
        c \in { [node |-> Nil, err |-> NoError],
                [node |-> [height |-> prevHeight + 1], err |-> NoError],
                [node |-> [height |-> prevHeight + 2], err |-> NoError],
                [node |-> Nil, err |-> "errFindPreviousCheckpoint"] },
        s \in { [state |-> "ThresholdActive", err |-> NoError],
                [state |-> "ThresholdStarted", err |-> NoError],
                [state |-> "ThresholdDefined", err |-> "errDeploymentState"] } }

ContextCall(net, blk, prevNode, flags, env) ==
    [ fn       |-> "checkBlockContext",
      b        |-> BlockChain(net, ModelExcessiveBlockSize, ModelAblaBlockSizeLimit, Nil),
      block    |-> blk,
      prevNode |-> prevNode,
      flags    |-> flags,
      env      |-> env ]

\* the heights of the height-gated forks
ForkHeights ==
    LET p == ChainParams("MainNet")
    IN  { p.UahfForkHeight, p.DaaForkHeight, p.MagneticAnonomalyForkHeight,
          p.GreatWallForkHeight, p.GravitonForkHeight, p.PhononForkHeight,
          p.Upgrade9ForkHeight, p.ABLAForkHeight }

\* parents around every fork height; the block's height is the parent's plus one
ForkParentHeights == UNION { {f - 1, f, f + 1} : f \in ForkHeights }

\* blocks of every size around the three limits, on parents around the forks
SizeCalls ==
    { ContextCall(net, ContextBlock(h + 1, 4, HeaderTimestamp, m[2], PlainTxs(h + 1, m[1])),
                  PrevNode(h), flags, EnvPass) :
        net \in {"MainNet", "TestNet3", "RegTest"},
        h \in ForkParentHeights,
        m \in { << 1, LegacyMaxBlockSize >>, << 1, LegacyMaxBlockSize + 1 >>,
                << 1, ModelExcessiveBlockSize >>, << 1, ModelExcessiveBlockSize + 1 >>,
                << 1, ModelAblaBlockSizeLimit >>, << 1, ModelAblaBlockSizeLimit + 1 >>,
                << LegacyMaxBlockSize, 2 * ModelExcessiveBlockSize >>,
                << ModelExcessiveBlockSize, 1000000000 >> },
        flags \in { {}, {"BFFastAdd"} } }

\* headers of every version around the version gates, every outcome of the outside calls
HeaderCalls ==
    UNION { { ContextCall("MainNet",
                          ContextBlock(h + 1, version, ts, LegacyMaxBlockSize, PlainTxs(h + 1, 1)),
                          PrevNode(h), flags, env) :
                version \in 1..4,
                ts \in { ParentMedianTime, ParentMedianTime + 1 },
                flags \in { {}, {"BFFastAdd"} },
                env \in Envs(h) } :
            h \in {198, 199, 299, 399} }

\* transactions of every kind of lock time, coinbase scripts right and wrong
TransactionCallsOn(h) ==
    { ContextCall("MainNet",
                  ContextBlock(h + 1, version, HeaderTimestamp, LegacyMaxBlockSize,
                               << [tx |-> ContextTx(0, MaxUint32, script), count |-> 1],
                                  [tx |-> ContextTx(lockTime, sequence, << >>), count |-> 1] >>),
                  PrevNode(h), flags,
                  [EnvPass EXCEPT !.deploymentState = [state |-> csvState, err |-> NoError]]) :
        version \in {1, 2},
        script \in { << >>, << OP_0 >>, HeightScript(h + 1), HeightScript(h + 2), << 2, 5 >> },
        lockTime \in { 0, h, h + 1, h + 2, ParentMedianTime, ParentMedianTime + 1,
                       HeaderTimestamp, HeaderTimestamp + 1 },
        sequence \in { 0, MaxUint32 },
        csvState \in { "ThresholdActive", "ThresholdStarted" },
        flags \in { {}, {"BFFastAdd"} } }

TransactionCalls == UNION { TransactionCallsOn(h) : h \in {150, 198, 199} }

ContextCalls == SizeCalls \cup HeaderCalls \cup TransactionCalls

CallCheckBlockContext ==
    /\ arg = NotCalled
    /\ \E call \in ContextCalls :
         /\ arg' = call
         /\ ret' = [fn |-> "checkBlockContext",
                    err |-> checkBlockContext(call.b, call.block, call.prevNode,
                                              call.flags, call.env)]
    /\ UNCHANGED ccbVars

CallMaxBlockSize ==
    /\ arg = NotCalled
    /\ \E uahfActive \in BOOLEAN, ablaActive \in BOOLEAN :
         LET b == BlockChain("MainNet", ModelExcessiveBlockSize, ModelAblaBlockSizeLimit, Nil)
         IN  /\ arg' = [fn |-> "MaxBlockSize", b |-> b,
                        uahfActive |-> uahfActive, ablaActive |-> ablaActive]
             /\ ret' = [fn |-> "MaxBlockSize",
                        size |-> MaxBlockSize(b, uahfActive, ablaActive)]
    /\ UNCHANGED ccbVars

NextContext == CallCheckBlockContext \/ CallMaxBlockSize

SpecContext == IdleInit /\ [][NextContext]_vars


ContextCalled == arg.fn = "checkBlockContext"

HeaderContextPassed ==
    checkBlockHeaderContext(arg.b, arg.block.header, arg.prevNode, arg.flags, arg.env) = NoError

\* newBlockNode(header, prevNode): the node checkConnectBlock gets for the block
ConnectedNode ==
    BlockNode(arg.prevNode.height + 1, "block", arg.block.header.Timestamp,
              arg.prevNode.medianTime, arg.env.deploymentState.state)

\* C7 as stated: every height-gated flag used for a block is
\* parent.height > fork height, in checkBlockContext and in checkConnectBlock.
C7_FlagIsParentAboveFork ==
    ContextCalled =>
      LET p == arg.b.chainParams
          parent == arg.prevNode.height
          ctx == ContextActivation(arg.block, p)
          con == ConnectActivation(ConnectedNode, p)
      IN  /\ ctx.uahfActive = (parent > p.UahfForkHeight)
          /\ ctx.ablaActive = (parent > p.ABLAForkHeight)
          /\ con.uahfActive = (parent > p.UahfForkHeight)
          /\ con.daaActive = (parent > p.DaaForkHeight)
          /\ con.magneticAnomalyActive = (parent > p.MagneticAnonomalyForkHeight)
          /\ con.greatWallActive = (parent > p.GreatWallForkHeight)
          /\ con.gravitonActive = (parent > p.GravitonForkHeight)
          /\ con.phononActive = (parent > p.PhononForkHeight)
          /\ con.upgrade9Active = (parent > p.Upgrade9ForkHeight)

\* C7, amended: every height-gated flag used for a block is
\* block height > fork height, that is parent.height >= fork height, so the
\* first block under a fork's rules is the one at fork height + 1, whose parent
\* is at the fork height; checkBlockContext and checkConnectBlock resolve the
\* same UAHF flag for the same block.
C7_FlagIsParentAtOrAboveFork ==
    ContextCalled =>
      LET p == arg.b.chainParams
          parent == arg.prevNode.height
          ctx == ContextActivation(arg.block, p)
          con == ConnectActivation(ConnectedNode, p)
      IN  /\ ctx.uahfActive = (parent >= p.UahfForkHeight)
          /\ ctx.ablaActive = (parent >= p.ABLAForkHeight)
          /\ con.uahfActive = (parent >= p.UahfForkHeight)
          /\ con.daaActive = (parent >= p.DaaForkHeight)
          /\ con.magneticAnomalyActive = (parent >= p.MagneticAnonomalyForkHeight)
          /\ con.greatWallActive = (parent >= p.GreatWallForkHeight)
          /\ con.gravitonActive = (parent >= p.GravitonForkHeight)
          /\ con.phononActive = (parent >= p.PhononForkHeight)
          /\ con.upgrade9Active = (parent >= p.Upgrade9ForkHeight)
          /\ ctx.uahfActive = con.uahfActive

\* a block whose parent is at UahfForkHeight, accepted under the UAHF size limit
C7_Witness ==
    /\ ContextCalled
    /\ arg.prevNode.height = arg.b.chainParams.UahfForkHeight
    /\ arg.block.serializeSize = ModelExcessiveBlockSize
    /\ ret.err = NoError

\* the limit of a block by its height, as the claim states it
SizeLimitAt(height) ==
    IF height <= arg.b.chainParams.UahfForkHeight THEN 1000000
    ELSE IF height <= arg.b.chainParams.ABLAForkHeight THEN arg.b.excessiveBlockSize
    ELSE arg.b.ablaBlockSizeLimit

C9_WitnessTooManyTransactions ==
    /\ ContextCalled
    /\ NumTransactions(arg.block.txs) > SizeLimitAt(arg.block.height)
    /\ ret.err = "ErrBlockTooBig"

C9_WitnessAblaWithoutUahf ==
    /\ arg.fn = "MaxBlockSize"
    /\ ~arg.uahfActive
    /\ arg.ablaActive
    /\ ret.size = LegacyMaxBlockSize

FirstUahfBlock ==
    /\ arg.b.chainParams.Net \in {"MainNet", "TestNet3"}
    /\ arg.block.height = arg.b.chainParams.UahfForkHeight + 1

\* C10: on mainnet and testnet3 the block at UahfForkHeight + 1 is rejected
\* with ErrBlockTooSmall when its serialized size is LegacyMaxBlockSize or
\* less, and at LegacyMaxBlockSize + 1 it gets neither ErrBlockTooSmall nor
\* ErrBlockTooBig; no other block gets ErrBlockTooSmall.
C10_FirstUahfBlockAboveLegacySize ==
    ContextCalled =>
      /\ ( /\ HeaderContextPassed
           /\ FirstUahfBlock
           /\ NumTransactions(arg.block.txs) <= arg.block.serializeSize
           /\ arg.block.serializeSize <= LegacyMaxBlockSize )
           => ret.err = "ErrBlockTooSmall"
      /\ (FirstUahfBlock /\ arg.block.serializeSize = LegacyMaxBlockSize + 1)
           => ret.err \notin {"ErrBlockTooSmall", "ErrBlockTooBig"}
      /\ ret.err = "ErrBlockTooSmall"
           => FirstUahfBlock /\ arg.block.serializeSize <= LegacyMaxBlockSize

\* the first UAHF block of mainnet at exactly LegacyMaxBlockSize, rejected
C10_Witness ==
    /\ ContextCalled
    /\ arg.b.chainParams.Net = "MainNet"
    /\ arg.block.height = arg.b.chainParams.UahfForkHeight + 1
    /\ arg.block.serializeSize = LegacyMaxBlockSize
    /\ ret.err = "ErrBlockTooSmall"

C10_WitnessPasses ==
    /\ ContextCalled
    /\ FirstUahfBlock
    /\ arg.block.serializeSize = LegacyMaxBlockSize + 1
    /\ ret.err = NoError

C10_WitnessOtherNetwork ==
    /\ ContextCalled
    /\ arg.b.chainParams.Net = "RegTest"
    /\ arg.block.height = arg.b.chainParams.UahfForkHeight + 1
    /\ arg.block.serializeSize = LegacyMaxBlockSize
    /\ ret.err = NoError


-----------------------------------------------------------------------------
(* Specification of checkConnectBlock over nodes around every activation *)

\* node heights just before and just after each height gate
GateHeights ==
    LET p == ChainParams("MainNet")
    IN  UNION { {g - 1, g, g + 1} : g \in { p.BIP0066Height, p.BIP0065Height } }
          \cup UNION { {f, f + 1} : f \in ForkHeights \ { p.ABLAForkHeight } }

\* times just before and at each time gate
GateTimes(chainParams) ==
    { chainParams.CosmicInflationActivationTime - 1, chainParams.CosmicInflationActivationTime,
      chainParams.Upgrade11ActivationTime - 1, chainParams.Upgrade11ActivationTime }

InitFlags ==
    /\ \E height \in GateHeights, version \in 2..4,
          timestamp \in { Bip16Activation - 1, Bip16Activation },
          csvState \in { "ThresholdStarted", "ThresholdActive" },
          checkpoint \in { "none", "before", "at" } :
         /\ chain = BlockChain("MainNet", ModelExcessiveBlockSize, ModelAblaBlockSizeLimit,
                               CASE checkpoint = "none" -> Nil
                                 [] checkpoint = "before" -> [Height |-> height - 1]
                                 [] checkpoint = "at" -> [Height |-> height])
         /\ \E medianTime \in GateTimes(chain.chainParams) :
              node = BlockNode(height, "block", timestamp, medianTime, csvState)
         /\ block = Block(height, version,
                          << CoinbaseTx(CalcBlockSubsidy(height, chain.chainParams)),
                             Tx(TxA, << OutPoint(11, 0) >>, << 1 >>) >>)
    /\ utxoCache = ModelStore
    /\ view = EmptyView
    /\ stxos = << >>
    /\ pc = "begin"
    /\ txIdx = 1
    /\ totalFees = 0
    /\ scriptFlags = {}
    /\ connected = {}
    /\ checkedAt = [i \in {} |-> {}]
    /\ seqLocks = << >>
    /\ scriptCall = NoCall
    /\ result = "running"
    /\ arg = NotCalled
    /\ ret = NotCalled
    /\ NoCallers

SpecFlags == InitFlags /\ [][Next]_vars

\* every flag the claim names
NamedScriptFlags ==
    { "ScriptBip16", "ScriptVerifyDERSignatures", "ScriptVerifyCheckLockTimeVerify",
      "ScriptVerifyStrictEncoding", "ScriptVerifyBip143SigHash",
      "ScriptVerifyLowS", "ScriptVerifyNullFail",
      "ScriptVerifySigPushOnly", "ScriptVerifyCleanStack", "ScriptVerifyCheckDataSig",
      "ScriptVerifySchnorr", "ScriptVerifyAllowSegwitRecovery",
      "ScriptVerifyMinimalData", "ScriptVerifySchnorrMultisig",
      "ScriptReportSigChecks", "ScriptVerifyReverseBytes",
      "ScriptVerify64BitIntegers", "ScriptVerifyNativeIntrospection",
      "ScriptAllowCashTokens", "ScriptAllowMay2025", "ScriptVerifyCheckSequenceVerify" }

\* C8: the flag set checkBlockScripts is called with holds each bundle exactly
\* when its rule is active for the node (a fork being active when the node's
\* height is above the fork height), and no flag beyond the bundles.
C8_ScriptFlagsAreTheBundles ==
    scriptCall.called =>
      LET p == chain.chainParams
          flags == scriptCall.scriptFlags
          Bundle(names, active) == \A f \in names : (f \in flags) <=> active
      IN  /\ Bundle({"ScriptBip16"}, node.timestamp >= 1333238400)
          /\ Bundle({"ScriptVerifyDERSignatures"},
                    block.version >= 3 /\ node.height >= p.BIP0066Height)
          /\ Bundle({"ScriptVerifyCheckLockTimeVerify"},
                    block.version >= 4 /\ node.height >= p.BIP0065Height)
          /\ Bundle({"ScriptVerifyStrictEncoding", "ScriptVerifyBip143SigHash"},
                    node.height > p.UahfForkHeight)
          /\ Bundle({"ScriptVerifyLowS", "ScriptVerifyNullFail"},
                    node.height > p.DaaForkHeight)
          /\ Bundle({"ScriptVerifySigPushOnly", "ScriptVerifyCleanStack",
                     "ScriptVerifyCheckDataSig"},
                    node.height > p.MagneticAnonomalyForkHeight)
          /\ Bundle({"ScriptVerifySchnorr", "ScriptVerifyAllowSegwitRecovery"},
                    node.height > p.GreatWallForkHeight)
          /\ Bundle({"ScriptVerifyMinimalData", "ScriptVerifySchnorrMultisig"},
                    node.height > p.GravitonForkHeight)
          /\ Bundle({"ScriptReportSigChecks", "ScriptVerifyReverseBytes"},
                    node.height > p.PhononForkHeight)
          /\ Bundle({"ScriptVerify64BitIntegers", "ScriptVerifyNativeIntrospection"},
                    node.parent.medianTime >= p.CosmicInflationActivationTime)
          /\ Bundle({"ScriptAllowCashTokens"}, node.height > p.Upgrade9ForkHeight)
          /\ Bundle({"ScriptAllowMay2025"},
                    node.parent.medianTime >= p.Upgrade11ActivationTime)
          /\ Bundle({"ScriptVerifyCheckSequenceVerify"},
                    node.parent.csvState = "ThresholdActive")
          /\ flags \subseteq NamedScriptFlags

\* script verification called with every bundle set
C8_Witness ==
    /\ scriptCall.called
    /\ scriptCall.scriptFlags = NamedScriptFlags

\* script verification called between DAA and MagneticAnomaly, before the
\* time gates, without CSV and with a version 3 block
C8_WitnessPartial ==
    /\ scriptCall.called
    /\ scriptCall.scriptFlags =
         { "ScriptBip16", "ScriptVerifyDERSignatures",
           "ScriptVerifyStrictEncoding", "ScriptVerifyBip143SigHash",
           "ScriptVerifyLowS", "ScriptVerifyNullFail" }


-----------------------------------------------------------------------------
(* Specification of checkConnectBlock over the block size limits *)

InitSigChecks ==
    /\ \E height \in UNION { {f, f + 1} : f \in ForkHeights },
          high \in {0, 1},
          checkpoint \in { Nil, [Height |-> 1] } :
         /\ chain = [BlockChain("MainNet", ModelExcessiveBlockSize, ModelAblaBlockSizeLimit,
                                checkpoint)
                       EXCEPT !.ablaBlockSizeLimitHigh = high]
         /\ node = BlockNode(height, "block", HeaderTimestamp, ParentMedianTime,
                             "ThresholdStarted")
         /\ block = Block(height, 4,
                          << CoinbaseTx(CalcBlockSubsidy(height, chain.chainParams)),
                             Tx(TxA, << OutPoint(11, 0) >>, << 1 >>) >>)
    /\ utxoCache = ModelStore
    /\ view = EmptyView
    /\ stxos = << >>
    /\ pc = "begin"
    /\ txIdx = 1
    /\ totalFees = 0
    /\ scriptFlags = {}
    /\ connected = {}
    /\ checkedAt = [i \in {} |-> {}]
    /\ seqLocks = << >>
    /\ scriptCall = NoCall
    /\ result = "running"
    /\ arg = NotCalled
    /\ ret = NotCalled
    /\ NoCallers

SpecSigChecks == InitSigChecks /\ [][Next]_vars

\* (high * 2^32 + low) \div 141, from 2^32 = 141 * 30460760 + 136
Uint64Div141(high, low) ==
    high * 30460760 + (low \div 141) + ((high * 136 + (low % 141)) \div 141)

\* the block size limit of the node's activation state, divided by 141
SigCheckBudgetOfLimit ==
    LET p == chain.chainParams
    IN  IF ~(node.height > p.UahfForkHeight) THEN 1000000 \div 141
        ELSE IF ~(node.height > p.ABLAForkHeight) THEN chain.excessiveBlockSize \div 141
        ELSE Uint64Div141(chain.ablaBlockSizeLimitHigh, chain.ablaBlockSizeLimit)

\* C11: the sig-check budget checkBlockScripts is called with is the block
\* size limit of the node's activation state (1,000,000 before UAHF, the
\* excessive block size with UAHF alone, the ABLA limit with both) divided
\* by 141, with nothing lost to the 32-bit conversion.
C11_SigCheckBudgetIsLimitOver141 ==
    scriptCall.called => scriptCall.maxSigChecks = SigCheckBudgetOfLimit


-----------------------------------------------------------------------------
(* Specification of CalcBlockSubsidy over heights around the halvings *)

\* heights around the halvings of the intervals 1, 150 and 210,000
SubsidyHeights ==
    { 0, 1, 9, 10, 32, 33, 64, 149, 150, 4949, 4950,
      209999, 210000, 419999, 420000, 9 * 210000, 10 * 210000,
      32 * 210000 - 1, 32 * 210000, 33 * 210000 - 1, 33 * 210000, 64 * 210000,
      2147483647 }

NoPreviousCall == [height |-> -1]

InitSubsidy ==
    /\ \E interval \in {0, 1, 150, 210000} :
         chain = [BlockChain("MainNet", ModelExcessiveBlockSize, ModelAblaBlockSizeLimit, Nil)
                    EXCEPT !.chainParams.SubsidyReductionInterval = interval]
    /\ utxoCache = ModelStore
    /\ node = BlockNode(701, "block", HeaderTimestamp, ParentMedianTime, "ThresholdStarted")
    /\ block = Block(701, 4, << CoinbaseTx(baseSubsidy) >>)
    /\ view = EmptyView
    /\ stxos = << >>
    /\ pc = "idle"
    /\ txIdx = 1
    /\ totalFees = 0
    /\ scriptFlags = {}
    /\ connected = {}
    /\ checkedAt = [i \in {} |-> {}]
    /\ seqLocks = << >>
    /\ scriptCall = NoCall
    /\ result = "running"
    /\ arg = NotCalled
    /\ ret = NotCalled
    /\ NoCallers

\* a call of CalcBlockSubsidy; the call before it, if any, is kept beside it
CallCalcBlockSubsidy ==
    /\ arg.fn = "none" \/ (arg.fn = "CalcBlockSubsidy" /\ arg.previous = NoPreviousCall)
    /\ \E height \in SubsidyHeights :
         /\ arg' = [fn |-> "CalcBlockSubsidy", height |-> height,
                    chainParams |-> chain.chainParams,
                    previous |-> IF arg.fn = "CalcBlockSubsidy"
                                 THEN [height |-> arg.height, subsidy |-> ret.subsidy]
                                 ELSE NoPreviousCall]
         /\ ret' = [fn |-> "CalcBlockSubsidy",
                    subsidy |-> CalcBlockSubsidySatoshi(height, chain.chainParams)]
    /\ UNCHANGED ccbVars

SpecSubsidy == InitSubsidy /\ [][CallCalcBlockSubsidy]_vars

\* an amount of satoshi that is a whole number of units
WholeUnits(satoshiOver5Pow10) == [units |-> satoshiOver5Pow10, satoshi |-> 0]

\* 5,000,000,000 >> n in closed form: 5,000,000,000 = 2^9 * 5^10
BaseSubsidyHalved(n) ==
    IF n <= 9 THEN WholeUnits(2^(9 - n))
    ELSE IF n <= 32 THEN [units |-> 0, satoshi |-> (5^10) \div (2^(n - 9))]
    ELSE WholeUnits(0)

AmountAtMost(x, y) ==
    x.units < y.units \/ (x.units = y.units /\ x.satoshi <= y.satoshi)

\* C12: CalcBlockSubsidy(height) is 5,000,000,000 >> (height / interval), and
\* 5,000,000,000 when the interval is 0; with interval 210,000 it is
\* 2,500,000,000 at 210,000 and 419,999 and 1,250,000,000 at 420,000; it
\* never grows with the height, is never negative, and is 0 from 33 halvings on.
C12_SubsidyHalves ==
    arg.fn = "CalcBlockSubsidy" =>
      LET interval == arg.chainParams.SubsidyReductionInterval
          halvings == IF interval = 0 THEN 0 ELSE arg.height \div interval
          subsidy == ret.subsidy
      IN  /\ subsidy = BaseSubsidyHalved(halvings)
          /\ interval = 0 => subsidy = WholeUnits(512)
          /\ (interval = 210000 /\ arg.height \in {210000, 419999})
               => subsidy = WholeUnits(256)    \* 2,500,000,000 = 256 * 5^10
          /\ (interval = 210000 /\ arg.height = 420000)
               => subsidy = WholeUnits(128)    \* 1,250,000,000 = 128 * 5^10
          /\ subsidy.units >= 0 /\ subsidy.satoshi >= 0
          /\ halvings >= 33 => subsidy = WholeUnits(0)
          /\ halvings = 32 => subsidy = [units |-> 0, satoshi |-> 1]
          /\ (arg.previous # NoPreviousCall /\ arg.previous.height <= arg.height)
               => AmountAtMost(subsidy, arg.previous.subsidy)

\* the subsidy at the first height with 33 halvings, after the last satoshi
\* at the height before it
C12_Witness ==
    /\ arg.fn = "CalcBlockSubsidy"
    /\ arg.chainParams.SubsidyReductionInterval = 210000
    /\ arg.height = 33 * 210000
    /\ arg.previous = [height |-> 33 * 210000 - 1, subsidy |-> [units |-> 0, satoshi |-> 1]]
    /\ ret.subsidy = WholeUnits(0)

C12_WitnessFirstHalving ==
    /\ arg.fn = "CalcBlockSubsidy"
    /\ arg.chainParams.SubsidyReductionInterval = 210000
    /\ arg.height = 210000
    /\ ret.subsidy = WholeUnits(256)


-----------------------------------------------------------------------------
(* Specification of ExtractCoinbaseHeight over signature scripts *)

\* the most bytes that follow the first byte of a script of the model
MaxScriptTail == 5

\* the sequences over S of length 0..n
RECURSIVE SeqsUpTo(_, _)
SeqsUpTo(S, n) ==
    IF n = 0 THEN { << >> }
    ELSE LET shorter == SeqsUpTo(S, n - 1)
         IN  shorter \cup { Append(q, x) : q \in shorter, x \in S }

\* the empty script, and scripts of a first byte followed by bytes: the first
\* bytes are OP_0, lengths, the bytes around OP_1..OP_16
CoinbaseScripts ==
    { << >>, << 3, 64, 13, 3 >>, << 3, 64, 13 >>,
      << 9, 1, 0, 0, 0, 0, 0, 0, 0, 1 >>, << 9, 1, 0, 0, 0, 0, 0, 0, 1, 0 >> }
      \cup { << first >> \o tail :
               first \in { 0, 1, 2, 3, 4, 5, 80, 81, 96, 97 },
               tail \in SeqsUpTo({ 0, 1, 128, 255 }, MaxScriptTail) }

CallExtractCoinbaseHeight ==
    /\ arg = NotCalled
    /\ \E script \in CoinbaseScripts :
         /\ arg' = [fn |-> "ExtractCoinbaseHeight",
                    coinbaseTx |-> ContextTx(0, MaxUint32, script)]
         /\ ret' = ExtractCoinbaseHeight(ContextTx(0, MaxUint32, script))
    /\ UNCHANGED ccbVars

SpecCoinbaseHeight == IdleInit /\ [][CallExtractCoinbaseHeight]_vars

CalledExtract == arg.fn = "ExtractCoinbaseHeight"

SigScript == arg.coinbaseTx.TxIn[1].SignatureScript

\* byte k of the at most 8 bytes read after the length byte, zero-extended
HeightByte(k) ==
    IF k <= SigScript[1] /\ k <= 8 THEN SigScript[k + 1] ELSE 0

\* the little-endian unsigned integer of those bytes is below 2^31
UnsignedHeightFits ==
    HeightByte(4) < 128 /\ \A k \in 5..8 : HeightByte(k) = 0

\* its value, when it fits
UnsignedHeight ==
    HeightByte(1) + 256 * HeightByte(2) + 65536 * HeightByte(3) + 16777216 * HeightByte(4)

\* C13: ExtractCoinbaseHeight returns 0 for first byte 0x00, the byte less
\* 0x50 for a first byte in 0x51..0x60, and else the little-endian unsigned
\* integer of the next L bytes, L the first byte (at most 8 used); it fails with
\* ErrMissingCoinbaseHeight exactly when the script is empty or, in the length
\* case, shorter than 1 + L.
C13_HeightIsUnsignedLittleEndian ==
    CalledExtract =>
      IF Len(SigScript) = 0 THEN ret.err = "ErrMissingCoinbaseHeight"
      ELSE IF SigScript[1] = 0 THEN ret.err = NoError /\ ret.height = 0
      ELSE IF SigScript[1] \in 81..96
           THEN ret.err = NoError /\ ret.height = SigScript[1] - 80
      ELSE IF Len(SigScript) < 1 + SigScript[1] THEN ret.err = "ErrMissingCoinbaseHeight"
      ELSE /\ ret.err = NoError
           /\ UnsignedHeightFits
           /\ ret.height = UnsignedHeight


-----------------------------------------------------------------------------
(* Specification of IsFinalizedTransaction over lock times, heights and times *)

\* a transaction by its lock time and the sequence numbers of its inputs
LockTx(lockTime, sequences) ==
    [ LockTime |-> lockTime,
      TxIn     |-> [i \in 1..Len(sequences) |-> [Sequence |-> sequences[i]]] ]

\* lock times: none, heights, the last height, the first time, times
LockTimes ==
    { 0, 1, 100, LockTimeThreshold - 1, LockTimeThreshold, LockTimeThreshold + 1,
      ModelTimes.header }

\* sequence numbers: 0, 0xFFFFFFFE (as -2), 0xFFFFFFFF
LockSequences == SeqsUpTo({ 0, -2, MaxUint32 }, MaxTxIn) \ { << >> }

LockHeights ==
    { -1, 0, 1, 100, 101, LockTimeThreshold - 1, LockTimeThreshold, LockTimeThreshold + 1 }

LockBlockTimes ==
    { 0, LockTimeThreshold - 1, LockTimeThreshold, LockTimeThreshold + 1,
      LockTimeThreshold + 2, ModelTimes.header, ModelTimes.header + 1 }

CallIsFinalizedTransaction ==
    /\ arg = NotCalled
    /\ \E lockTime \in LockTimes, sequences \in LockSequences,
          blockHeight \in LockHeights, blockTime \in LockBlockTimes :
         /\ arg' = [fn |-> "IsFinalizedTransaction", tx |-> LockTx(lockTime, sequences),
                    blockHeight |-> blockHeight, blockTime |-> blockTime]
         /\ ret' = [final |-> IsFinalizedTransaction(LockTx(lockTime, sequences),
                                                     blockHeight, blockTime)]
    /\ UNCHANGED ccbVars

SpecFinalized == IdleInit /\ [][CallIsFinalizedTransaction]_vars

CalledFinalized == arg.fn = "IsFinalizedTransaction"

AllInputsFinal(tx) == \A i \in 1..Len(tx.TxIn) : tx.TxIn[i].Sequence = MaxUint32

\* C14: IsFinalizedTransaction(tx, height, time) is true exactly when the lock
\* time is 0, or is below 500,000,000 and below the height, or is at least
\* 500,000,000 and below the time, or every input has sequence 0xFFFFFFFF; the
\* comparisons are strict.
C14_FinalizedIffLockPassedOrInputsFinal ==
    CalledFinalized =>
      ( ret.final <=>
          \/ arg.tx.LockTime = 0
          \/ arg.tx.LockTime < 500000000 /\ arg.tx.LockTime < arg.blockHeight
          \/ arg.tx.LockTime >= 500000000 /\ arg.tx.LockTime < arg.blockTime
          \/ AllInputsFinal(arg.tx) )

\* lock time 499,999,999 at height 499,999,999 with a non-final input: not finalized
C14_Witness ==
    /\ CalledFinalized
    /\ arg.tx.LockTime = 499999999 /\ arg.blockHeight = 499999999
    /\ ~AllInputsFinal(arg.tx)
    /\ ~ret.final

\* the same transaction one block later: finalized
C14_WitnessNextHeight ==
    /\ CalledFinalized
    /\ arg.tx.LockTime = 499999999 /\ arg.blockHeight = 500000000
    /\ ~AllInputsFinal(arg.tx)
    /\ ret.final

\* a time lock that the block time has not passed, the height far above it
C14_WitnessTimeLock ==
    /\ CalledFinalized
    /\ arg.tx.LockTime = 500000000 /\ arg.blockTime = 500000000
    /\ arg.blockHeight = 500000001
    /\ ~AllInputsFinal(arg.tx)
    /\ ~ret.final


-----------------------------------------------------------------------------
(* CheckTransactionSanity *)

\* an input by the outpoint it references and the length of its signature
\* script, an output by its value and the length of its public key script
SanityTxIn(outpoint, scriptLen) ==
    [Hash |-> outpoint.Hash, Index |-> outpoint.Index, SignatureScriptLen |-> scriptLen]

SanityTxOut(value, scriptLen) == [Value |-> value, PkScriptLen |-> scriptLen]

SanityTx(ins, outs) == [TxIn |-> ins, TxOut |-> outs]

PreviousOutPoint(txIn) == OutPoint(txIn.Hash, txIn.Index)

\* wire.VarIntSerializeSize: the bytes of a variable-length integer (values
\* above 2^32 - 1, which take 9 bytes, are beyond the model)
VarIntSerializeSize(val) ==
    IF val < 253 THEN 1
    ELSE IF val <= 65535 THEN 3
    ELSE 5

RECURSIVE SumOver(_, _)
SumOver(F(_), q) ==
    IF q = << >> THEN 0 ELSE F(Head(q)) + SumOver(F, Tail(q))

\* wire.MsgTx.SerializeSize: version and lock time (4 bytes each), the two
\* counts, 40 bytes and the script of each input, 8 bytes and the script of
\* each output
SerializeSize(msgTx) ==
    LET InSize(txIn) ==
            40 + VarIntSerializeSize(txIn.SignatureScriptLen) + txIn.SignatureScriptLen
        OutSize(txOut) ==
            8 + VarIntSerializeSize(txOut.PkScriptLen) + txOut.PkScriptLen
    IN  8 + VarIntSerializeSize(Len(msgTx.TxIn)) + SumOver(InSize, msgTx.TxIn)
          + VarIntSerializeSize(Len(msgTx.TxOut)) + SumOver(OutSize, msgTx.TxOut)

\* the output loop without the checks of the running total
RECURSIVE CheckOutputLoop_NoTotal(_, _, _)
CheckOutputLoop_NoTotal(txOut, i, totalSatoshi) ==
    IF i > Len(txOut) THEN NoError
    ELSE IF txOut[i].Value < 0 \/ txOut[i].Value > MaxSatoshi THEN "ErrBadTxOutValue"
    ELSE CheckOutputLoop_NoTotal(txOut, i + 1, totalSatoshi + txOut[i].Value)

\* the loop over the outputs from output i on, totalSatoshi the sum of the
\* outputs before it
RECURSIVE CheckOutputLoop(_, _, _)
CheckOutputLoop(txOut, i, totalSatoshi) ==
    IF i > Len(txOut) THEN NoError
    ELSE
      LET satoshi == txOut[i].Value
          total == totalSatoshi + satoshi
      IN  IF satoshi < 0 THEN "ErrBadTxOutValue"
          ELSE IF satoshi > MaxSatoshi THEN "ErrBadTxOutValue"
          ELSE IF total < 0 THEN "ErrBadTxOutValue"
          ELSE IF total > MaxSatoshi THEN "ErrBadTxOutValue"
          ELSE CheckOutputLoop(txOut, i + 1, total)

\* the input loop that finds no duplicate
DuplicateInputLoop_Never(txIn) == NoError

\* the loop over the inputs that looks each outpoint up among the earlier ones
DuplicateInputLoop(txIn) ==
    IF \E i, j \in 1..Len(txIn) :
          i < j /\ PreviousOutPoint(txIn[i]) = PreviousOutPoint(txIn[j])
    THEN "ErrDuplicateTxInputs"
    ELSE NoError

\* the minimum size with Upgrade9 ignored
minTxSize_IgnoresUpgrade9(upgrade9Active) == MagneticAnomalyMinTransactionSize

\* the minimum size once MagneticAnomaly or Upgrade9 is active
minTxSize(upgrade9Active) ==
    IF upgrade9Active THEN MinTransactionSize ELSE MagneticAnomalyMinTransactionSize

CheckTransactionSanity(tx, magneticAnomalyActive, upgrade9Active, flags) ==
    LET msgTx == tx
        serializedTxSize == SerializeSize(msgTx)
        amountErr == CheckOutputLoop(msgTx.TxOut, 1, 0)
        slen == msgTx.TxIn[1].SignatureScriptLen
    IN  IF Len(msgTx.TxIn) = 0 THEN "ErrNoTxInputs"
        ELSE IF Len(msgTx.TxOut) = 0 THEN "ErrNoTxOutputs"
        ELSE IF serializedTxSize > MaxTransactionSize THEN "ErrTxTooBig"
        ELSE IF /\ magneticAnomalyActive \/ upgrade9Active
                /\ serializedTxSize < minTxSize(upgrade9Active)
             THEN "ErrTxTooSmall"
        ELSE IF amountErr # NoError THEN amountErr
        ELSE IF DuplicateInputLoop(msgTx.TxIn) # NoError
             THEN DuplicateInputLoop(msgTx.TxIn)
        ELSE IF IsCoinBase(tx)
             THEN IF slen < MinCoinbaseScriptLen \/ slen > MaxCoinbaseScriptLen
                  THEN "ErrBadCoinbaseScriptLen"
                  ELSE NoError
        ELSE IF \E i \in 1..Len(msgTx.TxIn) : isNullOutpoint(PreviousOutPoint(msgTx.TxIn[i]))
             THEN "ErrBadTxInput"
        ELSE NoError

-----------------------------------------------------------------------------
(* Specification of CheckTransactionSanity over transactions of the model *)

\* signature script lengths: around the coinbase bounds 2 and 100, and those
\* that with the output scripts below give the sizes 64, 65, 99, 100,
\* 1,000,000 and 1,000,001
SanityScriptLens == { 1, 2, 3, 14, 15, 100, 101, 999911, 999912 }

SanityOutPoints == { NullOutPoint, OutPoint(11, 0), OutPoint(11, 1) }

SanityFirstIns ==
    { SanityTxIn(o, n) : o \in SanityOutPoints, n \in SanityScriptLens }

\* no input, one input, or two of which the second has a 2-byte script
SanityInputLists ==
    { << >> } \cup { << a >> : a \in SanityFirstIns }
      \cup { << a, SanityTxIn(o, 2) >> : a \in SanityFirstIns, o \in SanityOutPoints }

SanityValues == { -1, 0, 1, MaxSatoshi - 1, MaxSatoshi, MaxSatoshi + 1 }

SanityFirstOuts == { SanityTxOut(v, n) : v \in SanityValues, n \in { 2, 25 } }

SanityOutputLists ==
    { << >> } \cup { << a >> : a \in SanityFirstOuts }
      \cup { << a, SanityTxOut(v, 2) >> : a \in SanityFirstOuts, v \in SanityValues }

CallCheckTransactionSanity ==
    /\ arg = NotCalled
    /\ \E ins \in SanityInputLists, outs \in SanityOutputLists,
          magneticAnomalyActive \in BOOLEAN, upgrade9Active \in BOOLEAN :
         /\ arg' = [fn |-> "CheckTransactionSanity", tx |-> SanityTx(ins, outs),
                    magneticAnomalyActive |-> magneticAnomalyActive,
                    upgrade9Active |-> upgrade9Active]
         /\ ret' = [err |-> CheckTransactionSanity(SanityTx(ins, outs),
                               magneticAnomalyActive, upgrade9Active, {})]
    /\ UNCHANGED ccbVars

SpecSanity == IdleInit /\ [][CallCheckTransactionSanity]_vars

CalledSanity == arg.fn = "CheckTransactionSanity"

SanitySize == SerializeSize(arg.tx)

\* the checks that come before the size checks pass
HasInputsAndOutputs == Len(arg.tx.TxIn) > 0 /\ Len(arg.tx.TxOut) > 0

\* the minimum size of the activation state of the call, 0 for none
SanityMinSize ==
    IF arg.upgrade9Active THEN 65
    ELSE IF arg.magneticAnomalyActive THEN 100
    ELSE 0

\* C15: CheckTransactionSanity rejects a transaction of more than 1,000,000
\* serialized bytes with ErrTxTooBig, and one smaller than the minimum size with
\* ErrTxTooSmall: the minimum is 65 bytes whenever Upgrade9 is active, 100 bytes
\* when only MagneticAnomaly is active, and none when neither is. (The checks of
\* the input and output counts come first.)
C15_SizeBounds ==
    CalledSanity =>
      /\ (SanitySize > 1000000 \/ SanitySize < SanityMinSize) => ret.err # NoError
      /\ HasInputsAndOutputs =>
           /\ ret.err = "ErrTxTooBig" <=> SanitySize > 1000000
           /\ ret.err = "ErrTxTooSmall" <=> SanitySize < SanityMinSize

\* 64 bytes under Upgrade9: too small
C15_Witness ==
    /\ CalledSanity /\ arg.upgrade9Active
    /\ SanitySize = 64
    /\ ret.err = "ErrTxTooSmall"

\* 65 bytes under Upgrade9, with and without MagneticAnomaly: not too small
C15_Witness65 ==
    /\ CalledSanity /\ arg.upgrade9Active /\ arg.magneticAnomalyActive
    /\ SanitySize = 65
    /\ ret.err = NoError

\* 99 bytes under MagneticAnomaly only: too small
C15_Witness99 ==
    /\ CalledSanity /\ arg.magneticAnomalyActive /\ ~arg.upgrade9Active
    /\ SanitySize = 99
    /\ ret.err = "ErrTxTooSmall"

\* 100 bytes under MagneticAnomaly only: passes
C15_Witness100 ==
    /\ CalledSanity /\ arg.magneticAnomalyActive /\ ~arg.upgrade9Active
    /\ SanitySize = 100
    /\ ret.err = NoError

\* 64 bytes with neither active: passes
C15_WitnessNoMinimum ==
    /\ CalledSanity /\ ~arg.magneticAnomalyActive /\ ~arg.upgrade9Active
    /\ SanitySize = 64
    /\ ret.err = NoError

\* 1,000,000 bytes pass the size checks, 1,000,001 bytes do not
C15_WitnessTooBig ==
    /\ CalledSanity
    /\ SanitySize = 1000001
    /\ ret.err = "ErrTxTooBig"

C15_WitnessLargest ==
    /\ CalledSanity
    /\ SanitySize = 1000000
    /\ ret.err = NoError


SanityValue(i) == arg.tx.TxOut[i].Value

SanityPrefixSum(i) == SumSeq([k \in 1..i |-> SanityValue(k)])

\* some output is negative or above MaxSatoshi, or the outputs up to some
\* output sum to more than MaxSatoshi
BadOutputValue ==
    \E i \in 1..Len(arg.tx.TxOut) :
       \/ SanityValue(i) < 0
       \/ SanityValue(i) > MaxSatoshi
       \/ SanityPrefixSum(i) > MaxSatoshi

SanitySizeInBounds == SanitySize <= 1000000 /\ SanitySize >= SanityMinSize

\* C16: CheckTransactionSanity succeeds only if every output value and the sum
\* of all outputs are in [0, MaxSatoshi]; a negative value, a value above
\* MaxSatoshi and a prefix sum above MaxSatoshi are each rejected, with
\* ErrBadTxOutValue. (The checks of the counts and of the size come first.)
C16_OutputValuesInRange ==
    CalledSanity =>
      /\ ret.err = NoError =>
           /\ \A i \in 1..Len(arg.tx.TxOut) : SanityValue(i) \in 0..MaxSatoshi
           /\ SanityPrefixSum(Len(arg.tx.TxOut)) \in 0..MaxSatoshi
      /\ BadOutputValue => ret.err # NoError
      /\ (HasInputsAndOutputs /\ SanitySizeInBounds) =>
           (ret.err = "ErrBadTxOutValue" <=> BadOutputValue)

\* two outputs, each in range, that sum to more than MaxSatoshi
C16_Witness ==
    /\ CalledSanity
    /\ Len(arg.tx.TxOut) = 2
    /\ \A i \in 1..2 : SanityValue(i) \in 0..MaxSatoshi
    /\ SanityPrefixSum(2) > MaxSatoshi
    /\ ret.err = "ErrBadTxOutValue"

\* a negative output
C16_WitnessNegative ==
    /\ CalledSanity
    /\ \E i \in 1..Len(arg.tx.TxOut) : SanityValue(i) < 0
    /\ ret.err = "ErrBadTxOutValue"

\* an output above MaxSatoshi
C16_WitnessAboveMax ==
    /\ CalledSanity
    /\ Len(arg.tx.TxOut) >= 1 /\ SanityValue(1) > MaxSatoshi
    /\ ret.err = "ErrBadTxOutValue"

\* outputs that sum to exactly MaxSatoshi: accepted
C16_WitnessSumAtMax ==
    /\ CalledSanity
    /\ Len(arg.tx.TxOut) = 2 /\ SanityValue(2) > 0
    /\ SanityPrefixSum(2) = MaxSatoshi
    /\ ret.err = NoError

SanityOutPointAt(i) == PreviousOutPoint(arg.tx.TxIn[i])

SanityDuplicateInputs ==
    \E i, j \in 1..Len(arg.tx.TxIn) : i # j /\ SanityOutPointAt(i) = SanityOutPointAt(j)

SanityNullInput ==
    \E i \in 1..Len(arg.tx.TxIn) : SanityOutPointAt(i) = NullOutPoint

\* exactly one input, and it references the null outpoint
SanityCoinbase == Len(arg.tx.TxIn) = 1 /\ SanityOutPointAt(1) = NullOutPoint

SanityCoinbaseScriptLenInRange == arg.tx.TxIn[1].SignatureScriptLen \in 2..100

\* C17: CheckTransactionSanity succeeds only if the transaction has at least
\* one input and one output, its input outpoints are pairwise distinct, and it
\* is a coinbase with a signature script of 2 to 100 bytes or a non-coinbase
\* with no input that references the null outpoint; the violations yield
\* ErrNoTxInputs, ErrNoTxOutputs, ErrDuplicateTxInputs, ErrBadCoinbaseScriptLen
\* and ErrBadTxInput, duplicates before null outpoints. (The checks of the size
\* and of the output values come between those of the counts and the others.)
C17_InputsOutputsAndCoinbase ==
    CalledSanity =>
      /\ ret.err = NoError =>
           /\ Len(arg.tx.TxIn) >= 1 /\ Len(arg.tx.TxOut) >= 1
           /\ ~SanityDuplicateInputs
           /\ IF SanityCoinbase THEN SanityCoinbaseScriptLenInRange ELSE ~SanityNullInput
      /\ ret.err = "ErrNoTxInputs" <=> Len(arg.tx.TxIn) = 0
      /\ ret.err = "ErrNoTxOutputs" <=> (Len(arg.tx.TxIn) > 0 /\ Len(arg.tx.TxOut) = 0)
      /\ (HasInputsAndOutputs /\ SanitySizeInBounds /\ ~BadOutputValue) =>
           /\ ret.err = "ErrDuplicateTxInputs" <=> SanityDuplicateInputs
           /\ ret.err = "ErrBadCoinbaseScriptLen"
                <=> (SanityCoinbase /\ ~SanityCoinbaseScriptLenInRange)
           /\ ret.err = "ErrBadTxInput"
                <=> (~SanityDuplicateInputs /\ ~SanityCoinbase /\ SanityNullInput)

\* duplicate inputs that reference the null outpoint: the duplicate is reported
C17_Witness ==
    /\ CalledSanity
    /\ SanityDuplicateInputs /\ SanityNullInput
    /\ ret.err = "ErrDuplicateTxInputs"

\* a non-coinbase with a null outpoint among distinct inputs
C17_WitnessNullInput ==
    /\ CalledSanity
    /\ ~SanityDuplicateInputs /\ ~SanityCoinbase /\ SanityNullInput
    /\ ret.err = "ErrBadTxInput"

\* coinbases with scripts of 1, 2, 100 and 101 bytes
C17_WitnessCoinbaseScriptLen ==
    /\ CalledSanity /\ SanityCoinbase
    /\ arg.tx.TxIn[1].SignatureScriptLen \in { 1, 101 }
    /\ ret.err = "ErrBadCoinbaseScriptLen"

C17_WitnessCoinbaseShortest ==
    /\ CalledSanity /\ SanityCoinbase
    /\ arg.tx.TxIn[1].SignatureScriptLen = 2
    /\ ret.err = NoError

C17_WitnessCoinbaseLongest ==
    /\ CalledSanity /\ SanityCoinbase
    /\ arg.tx.TxIn[1].SignatureScriptLen = 100
    /\ ret.err = NoError

C17_WitnessNoInputs ==
    /\ CalledSanity
    /\ Len(arg.tx.TxIn) = 0 /\ Len(arg.tx.TxOut) = 0
    /\ ret.err = "ErrNoTxInputs"

C17_WitnessNoOutputs ==
    /\ CalledSanity
    /\ Len(arg.tx.TxIn) > 0 /\ Len(arg.tx.TxOut) = 0
    /\ ret.err = "ErrNoTxOutputs"


-----------------------------------------------------------------------------
(* checkBlockSanity *)

\* the seconds a block time may be ahead of the adjusted time
MaxTimeOffsetSeconds == 2 * 60 * 60

\* a header by the target its bits expand to (CompactToBig), its hash as a
\* number (HashToBig), its timestamp in seconds and nanoseconds, and its merkle root
SanityHeader(target, hashNum, timestamp, merkleRoot) ==
    [target |-> target, hashNum |-> hashNum, Timestamp |-> timestamp,
     MerkleRoot |-> merkleRoot]

\* a transaction of a block: its txid with its inputs and outputs
BlockTx(hash, ins, outs) == [Hash |-> hash, TxIn |-> ins, TxOut |-> outs]

SanityBlock(header, transactions) == [Header |-> header, Transactions |-> transactions]

checkProofOfWork(header, powLimit, flags) ==
    LET target == header.target
    IN  IF target <= 0 THEN "ErrUnexpectedDifficulty"
        ELSE IF target > powLimit THEN "ErrUnexpectedDifficulty"
        ELSE IF "BFNoPoWCheck" \notin flags /\ header.hashNum > target THEN "ErrHighHash"
        ELSE NoError

checkBlockHeaderSanity(header, powLimit, timeSource, flags) ==
    LET err == checkProofOfWork(header, powLimit, flags)
        maxTimestamp == timeSource.AdjustedTime + MaxTimeOffsetSeconds
    IN  IF err # NoError THEN err
        ELSE IF header.Timestamp.nsec # 0 THEN "ErrInvalidTime"
        ELSE IF header.Timestamp.sec > maxTimestamp THEN "ErrTimeTooNew"
        ELSE NoError

\* chainhash.Hash.Compare: -1, 0 or 1 as a is below, equal to or above b
Compare(a, b) == IF a < b THEN -1 ELSE IF a > b THEN 1 ELSE 0

\* BuildMerkleTreeStore, its last element: the root of the tree over the
\* txids, each level pairing its nodes and pairing an odd last node with itself
RECURSIVE MerkleRootOf(_)
MerkleRootOf(level) ==
    IF Len(level) = 1 THEN level[1]
    ELSE MerkleRootOf([i \in 1..((Len(level) + 1) \div 2) |->
                         << level[2 * i - 1],
                            IF 2 * i <= Len(level) THEN level[2 * i] ELSE level[2 * i - 1] >>])

CalcMerkleRoot(transactions) ==
    MerkleRootOf([i \in 1..Len(transactions) |-> << transactions[i].Hash >>])

\* the loop over the transactions after the first that finds no coinbase
MultipleCoinbaseLoop_Never(transactions) == NoError

\* the loop over the transactions after the first
MultipleCoinbaseLoop(transactions) ==
    IF \E i \in 2..Len(transactions) : IsCoinBase(transactions[i])
    THEN "ErrMultipleCoinbases"
    ELSE NoError

\* the transaction loop with equal txids let through the ordering comparison
RECURSIVE SanityLoop_NonStrict(_, _, _, _, _)
SanityLoop_NonStrict(transactions, i, magneticAnomaly, upgrade9, flags) ==
    IF i > Len(transactions) - 1 THEN NoError
    ELSE IF /\ magneticAnomaly /\ i > 1
            /\ Compare(transactions[i].Hash, transactions[i + 1].Hash) > 0
         THEN "ErrInvalidTxOrder"
    ELSE
      LET err == CheckTransactionSanity(transactions[i + 1], magneticAnomaly, upgrade9, flags)
      IN  IF err # NoError THEN err
          ELSE SanityLoop_NonStrict(transactions, i + 1, magneticAnomaly, upgrade9, flags)

\* the loop over the transactions from index i on (indices from 0 as in the
\* source: transaction i is transactions[i + 1], lastTxid the txid before it)
RECURSIVE SanityLoop(_, _, _, _, _)
SanityLoop(transactions, i, magneticAnomaly, upgrade9, flags) ==
    IF i > Len(transactions) - 1 THEN NoError
    ELSE IF /\ magneticAnomaly /\ i > 1
            /\ Compare(transactions[i].Hash, transactions[i + 1].Hash) >= 0
         THEN "ErrInvalidTxOrder"
    ELSE
      LET err == CheckTransactionSanity(transactions[i + 1], magneticAnomaly, upgrade9, flags)
      IN  IF err # NoError THEN err
          ELSE SanityLoop(transactions, i + 1, magneticAnomaly, upgrade9, flags)

\* the loop that looks each txid up among the earlier ones
DuplicateTxLoop(transactions) ==
    IF \E i, j \in 1..Len(transactions) :
          i < j /\ transactions[i].Hash = transactions[j].Hash
    THEN "ErrDuplicateTx"
    ELSE NoError

checkBlockSanity(blk, powLimit, timeSource, flags) ==
    LET header == blk.Header
        err == checkBlockHeaderSanity(header, powLimit, timeSource, flags)
        transactions == blk.Transactions
        numTx == Len(transactions)
        magneticAnomaly == "BFMagneticAnomaly" \in flags
        upgrade9 == "BFUpgrade9" \in flags
        sanityFlags ==
            IF magneticAnomaly
            THEN { "ScriptVerifySigPushOnly", "ScriptVerifyCleanStack",
                   "ScriptVerifyCheckDataSig" }
            ELSE {}
        loopErr == SanityLoop(transactions, 0, magneticAnomaly, upgrade9, sanityFlags)
    IN  IF err # NoError THEN err
        ELSE IF numTx = 0 THEN "ErrNoTransactions"
        ELSE IF ~IsCoinBase(transactions[1]) THEN "ErrFirstTxNotCoinbase"
        ELSE IF MultipleCoinbaseLoop(transactions) # NoError
             THEN MultipleCoinbaseLoop(transactions)
        ELSE IF loopErr # NoError THEN loopErr
        ELSE IF header.MerkleRoot # CalcMerkleRoot(transactions) THEN "ErrBadMerkleRoot"
        ELSE DuplicateTxLoop(transactions)

-----------------------------------------------------------------------------
(* Specification of checkBlockSanity over blocks of the model *)

\* the most transactions of a block of the model
MaxBlockTxs == 3

\* the transactions blocks are made of: two coinbases, two transactions A and
\* B with txids A < B below that of the coinbase, and a transaction without
\* outputs; those with outputs are 100 bytes or more
SanityCoinbase1 ==
    BlockTx(CoinbaseHash, << SanityTxIn(NullOutPoint, 15) >>, << SanityTxOut(baseSubsidy, 25) >>)

SanityCoinbase2 ==
    BlockTx(8, << SanityTxIn(NullOutPoint, 16) >>, << SanityTxOut(baseSubsidy, 25) >>)

SanityTxA == BlockTx(TxA, << SanityTxIn(OutPoint(11, 0), 15) >>, << SanityTxOut(1, 25) >>)

SanityTxB == BlockTx(TxB, << SanityTxIn(OutPoint(11, 1), 15) >>, << SanityTxOut(1, 25) >>)

SanityTxNoOutputs == BlockTx(3, << SanityTxIn(OutPoint(12, 0), 15) >>, << >>)

SanityBlockTxs ==
    SeqsUpTo({ SanityCoinbase1, SanityCoinbase2, SanityTxA, SanityTxB, SanityTxNoOutputs },
             MaxBlockTxs)

\* the limit of the target, the adjusted time of the time source
SanityEnv == [powLimit |-> 10, timeSource |-> [AdjustedTime |-> ModelTimes.header]]

\* the merkle root of the transactions, or that of all but the last
SanityMerkleRoots(transactions) ==
    IF Len(transactions) = 0 THEN { << zeroHash >> }
    ELSE IF Len(transactions) = 1 THEN { CalcMerkleRoot(transactions), << zeroHash >> }
    ELSE { CalcMerkleRoot(transactions),
           CalcMerkleRoot(SubSeq(transactions, 1, Len(transactions) - 1)) }

SanityTimestamps ==
    { [sec |-> ModelTimes.header + MaxTimeOffsetSeconds, nsec |-> 0],
      [sec |-> ModelTimes.header, nsec |-> 1],
      [sec |-> ModelTimes.header + MaxTimeOffsetSeconds + 1, nsec |-> 0] }

CallCheckBlockSanity ==
    /\ arg = NotCalled
    /\ \E transactions \in SanityBlockTxs, target \in { 0, 5, 11 }, hashNum \in { 5, 6 },
          timestamp \in SanityTimestamps,
          flags \in SUBSET { "BFMagneticAnomaly", "BFUpgrade9", "BFNoPoWCheck" } :
         \E merkleRoot \in SanityMerkleRoots(transactions) :
           LET blk == SanityBlock(SanityHeader(target, hashNum, timestamp, merkleRoot),
                                  transactions)
           IN  /\ arg' = [fn |-> "checkBlockSanity", block |-> blk, flags |-> flags]
               /\ ret' = [err |-> checkBlockSanity(blk, SanityEnv.powLimit,
                                                   SanityEnv.timeSource, flags)]
    /\ UNCHANGED ccbVars

SpecBlockSanity == IdleInit /\ [][CallCheckBlockSanity]_vars

CalledBlockSanity == arg.fn = "checkBlockSanity"

BlockTxAt(i) == arg.block.Transactions[i]

NumBlockTxs == Len(arg.block.Transactions)

\* exactly one input, whose outpoint is the null outpoint
CoinbaseAt(i) ==
    /\ Len(BlockTxAt(i).TxIn) = 1
    /\ PreviousOutPoint(BlockTxAt(i).TxIn[1]) = NullOutPoint

SanityHeaderPasses ==
    checkBlockHeaderSanity(arg.block.Header, SanityEnv.powLimit, SanityEnv.timeSource,
                           arg.flags) = NoError

TxSaneAt(i) ==
    CheckTransactionSanity(BlockTxAt(i), "BFMagneticAnomaly" \in arg.flags,
                           "BFUpgrade9" \in arg.flags, {}) = NoError

\* C18: a block passes checkBlockSanity only if it has at least one
\* transaction, transaction 0 is a coinbase (exactly one input, the null
\* outpoint) and no other transaction is; the violations yield
\* ErrNoTransactions, ErrFirstTxNotCoinbase and ErrMultipleCoinbases, checked in
\* that order and before any transaction's sanity check. (The checks of the
\* header come first.)
C18_CoinbaseStructure ==
    CalledBlockSanity =>
      /\ ret.err = NoError =>
           /\ NumBlockTxs >= 1
           /\ CoinbaseAt(1)
           /\ \A i \in 2..NumBlockTxs : ~CoinbaseAt(i)
      /\ SanityHeaderPasses =>
           /\ ret.err = "ErrNoTransactions" <=> NumBlockTxs = 0
           /\ ret.err = "ErrFirstTxNotCoinbase" <=> (NumBlockTxs > 0 /\ ~CoinbaseAt(1))
           /\ ret.err = "ErrMultipleCoinbases"
                <=> /\ NumBlockTxs > 0 /\ CoinbaseAt(1)
                    /\ \E i \in 2..NumBlockTxs : CoinbaseAt(i)

\* a second coinbase behind a transaction that is not sane
C18_Witness ==
    /\ CalledBlockSanity
    /\ NumBlockTxs = 3 /\ CoinbaseAt(1) /\ ~TxSaneAt(2) /\ CoinbaseAt(3)
    /\ ret.err = "ErrMultipleCoinbases"

\* a first transaction that is neither a coinbase nor sane, a coinbase behind it
C18_WitnessFirstNotCoinbase ==
    /\ CalledBlockSanity
    /\ NumBlockTxs >= 2 /\ ~CoinbaseAt(1) /\ ~TxSaneAt(1) /\ CoinbaseAt(2)
    /\ ret.err = "ErrFirstTxNotCoinbase"

C18_WitnessNoTransactions ==
    /\ CalledBlockSanity
    /\ NumBlockTxs = 0
    /\ ret.err = "ErrNoTransactions"

\* a block that passes
C18_WitnessPasses ==
    /\ CalledBlockSanity
    /\ NumBlockTxs = 3
    /\ ret.err = NoError


BlockTxid(i) == BlockTxAt(i).Hash

MagneticAnomalyFlag == "BFMagneticAnomaly" \in arg.flags

\* the header, the coinbase structure, every transaction and the merkle root
\* pass, so the outcome is that of the ordering and duplicate checks
OrderingDecides ==
    /\ SanityHeaderPasses
    /\ NumBlockTxs >= 1 /\ CoinbaseAt(1)
    /\ \A i \in 2..NumBlockTxs : ~CoinbaseAt(i)
    /\ \A i \in 1..NumBlockTxs : TxSaneAt(i)
    /\ arg.block.Header.MerkleRoot = CalcMerkleRoot(arg.block.Transactions)

PassesOrderingAndDuplicates == ret.err \notin { "ErrInvalidTxOrder", "ErrDuplicateTx" }

\* C19 as stated: with MagneticAnomaly active txids [cb, A, A] fail with
\* ErrDuplicateTx, [cb, B, A] with A < B fail with ErrInvalidTxOrder and
\* [cb, A, B] pass the ordering and duplicate checks; the coinbase is exempt
\* from the comparison; with MagneticAnomaly inactive no ordering is enforced.
C19_EqualTxidsAreDuplicateTx ==
    (CalledBlockSanity /\ OrderingDecides) =>
      /\ (MagneticAnomalyFlag /\ NumBlockTxs = 3) =>
           /\ BlockTxid(2) = BlockTxid(3) => ret.err = "ErrDuplicateTx"
           /\ BlockTxid(3) < BlockTxid(2) => ret.err = "ErrInvalidTxOrder"
           /\ BlockTxid(2) < BlockTxid(3) => PassesOrderingAndDuplicates
      /\ (MagneticAnomalyFlag /\ NumBlockTxs = 2) => PassesOrderingAndDuplicates
      /\ ~MagneticAnomalyFlag => ret.err # "ErrInvalidTxOrder"

\* C19, amended: with MagneticAnomaly active txids [cb, A, A] fail with
\* ErrInvalidTxOrder, as [cb, B, A] with A < B do (the comparison is strict and
\* comes before the duplicate check), and [cb, A, B] pass the ordering and
\* duplicate checks; the coinbase is exempt from the comparison; with
\* MagneticAnomaly inactive no ordering is enforced and [cb, A, A] fail with
\* ErrDuplicateTx.
C19_EqualTxidsAreInvalidTxOrder ==
    (CalledBlockSanity /\ OrderingDecides) =>
      /\ (MagneticAnomalyFlag /\ NumBlockTxs = 3) =>
           /\ BlockTxid(2) = BlockTxid(3) => ret.err = "ErrInvalidTxOrder"
           /\ BlockTxid(3) < BlockTxid(2) => ret.err = "ErrInvalidTxOrder"
           /\ BlockTxid(2) < BlockTxid(3) => ret.err = NoError
      /\ (MagneticAnomalyFlag /\ NumBlockTxs = 2) => ret.err = NoError
      /\ ~MagneticAnomalyFlag =>
           /\ ret.err # "ErrInvalidTxOrder"
           /\ (NumBlockTxs = 3 /\ BlockTxid(2) = BlockTxid(3)) => ret.err = "ErrDuplicateTx"
           /\ (NumBlockTxs = 3 /\ BlockTxid(3) < BlockTxid(2)) => ret.err = NoError

\* txids [cb, A, A] with MagneticAnomaly active
C19_Witness ==
    /\ CalledBlockSanity /\ OrderingDecides /\ MagneticAnomalyFlag
    /\ NumBlockTxs = 3 /\ BlockTxid(2) = BlockTxid(3)
    /\ ret.err = "ErrInvalidTxOrder"

\* txids [cb, B, A] with A < B, MagneticAnomaly active
C19_WitnessDescending ==
    /\ CalledBlockSanity /\ OrderingDecides /\ MagneticAnomalyFlag
    /\ NumBlockTxs = 3 /\ BlockTxid(3) < BlockTxid(2)
    /\ ret.err = "ErrInvalidTxOrder"

\* txids [cb, A, B] with A < B below the txid of the coinbase, MagneticAnomaly active
C19_WitnessAscending ==
    /\ CalledBlockSanity /\ OrderingDecides /\ MagneticAnomalyFlag
    /\ NumBlockTxs = 3 /\ BlockTxid(2) < BlockTxid(3) /\ BlockTxid(2) < BlockTxid(1)
    /\ ret.err = NoError

\* txids [cb, A, A] and [cb, B, A] with MagneticAnomaly inactive
C19_WitnessInactiveDuplicate ==
    /\ CalledBlockSanity /\ OrderingDecides /\ ~MagneticAnomalyFlag
    /\ NumBlockTxs = 3 /\ BlockTxid(2) = BlockTxid(3)
    /\ ret.err = "ErrDuplicateTx"

C19_WitnessInactiveDescending ==
    /\ CalledBlockSanity /\ OrderingDecides /\ ~MagneticAnomalyFlag
    /\ NumBlockTxs = 3 /\ BlockTxid(3) < BlockTxid(2)
    /\ ret.err = NoError


-----------------------------------------------------------------------------
(* Specification of checkConnectBlock around the BIP0030 check *)

\* the heights of the model's chain parameters moved up so that BIP0034
\* activates at 227931, above the two grandfathered blocks
Bip30HeightShift == 227931 - ChainParams("MainNet").BIP0034Height

Bip30ChainParams ==
    [ ChainParams("MainNet") EXCEPT
        !.BIP0034Height = @ + Bip30HeightShift,
        !.BIP0066Height = @ + Bip30HeightShift,
        !.BIP0065Height = @ + Bip30HeightShift,
        !.UahfForkHeight = @ + Bip30HeightShift,
        !.DaaForkHeight = @ + Bip30HeightShift,
        !.MagneticAnonomalyForkHeight = @ + Bip30HeightShift,
        !.GreatWallForkHeight = @ + Bip30HeightShift,
        !.GravitonForkHeight = @ + Bip30HeightShift,
        !.PhononForkHeight = @ + Bip30HeightShift,
        !.Upgrade9ForkHeight = @ + Bip30HeightShift,
        !.ABLAForkHeight = @ + Bip30HeightShift ]

\* the grandfathered heights and a height between them, the last height
\* before BIP0034 and the first with it, a height with MagneticAnomaly
Bip30Heights ==
    { 91842, 91843, 91880, Bip30ChainParams.BIP0034Height - 1,
      Bip30ChainParams.BIP0034Height,
      Bip30ChainParams.MagneticAnonomalyForkHeight + 1 }

Bip30Hashes == { block91842Hash, block91880Hash, "block" }

\* entries at output positions of the block: none, unspent or spent at the
\* coinbase's output, unspent at the output of transaction A
Bip30Entries ==
    { EmptyView,
      OutPoint(CoinbaseHash, 0) :> Entry(baseSubsidy, 91000, TRUE, FALSE),
      OutPoint(CoinbaseHash, 0) :> Entry(baseSubsidy, 91000, TRUE, TRUE),
      OutPoint(TxA, 0) :> Entry(1, 91000, FALSE, FALSE) }

InitBIP30 ==
    /\ chain = [BlockChain("MainNet", ModelExcessiveBlockSize, ModelAblaBlockSizeLimit, Nil)
                  EXCEPT !.chainParams = Bip30ChainParams]
    /\ \E height \in Bip30Heights, hash \in Bip30Hashes :
         /\ node = BlockNode(height, hash, HeaderTimestamp, ParentMedianTime,
                             "ThresholdStarted")
         /\ block = Block(height, 4,
                          << CoinbaseTx(CalcBlockSubsidy(height, chain.chainParams)),
                             Tx(TxA, << OutPoint(11, 0) >>, << 1 >>) >>)
    /\ \E inStore \in Bip30Entries : utxoCache = inStore @@ ModelStore
    /\ view \in Bip30Entries
    /\ stxos = << >>
    /\ pc = "begin"
    /\ txIdx = 1
    /\ totalFees = 0
    /\ scriptFlags = {}
    /\ connected = {}
    /\ checkedAt = [i \in {} |-> {}]
    /\ seqLocks = << >>
    /\ scriptCall = NoCall
    /\ result = "running"
    /\ arg = NotCalled
    /\ ret = NotCalled
    /\ NoCallers

SpecBIP30 == InitBIP30 /\ [][Next]_vars

\* height 91842 or 91880 with the hash embedded for that height
GrandfatheredNode ==
    \/ node.height = 91842
         /\ node.hash = "00000000000a4d0a398161ffc163c503763b1f4360639393e0e4c8e300e0caec"
    \/ node.height = 91880
         /\ node.hash = "00000000000743f190a18c5577a3c2d2a1f610ae9601ac046a38084ccb7cd721"

Bip30CheckRuns == ~GrandfatheredNode /\ node.height < chain.chainParams.BIP0034Height

UnspentIn(entries, op) == op \in DOMAIN entries /\ ~entries[op].spent

\* some output position has an unspent entry in the view or, absent from the
\* view, in the store
OverwritesUnspent ==
    \E op \in BlockOutPoints(block) :
       \/ UnspentIn(view, op)
       \/ op \notin DOMAIN view /\ UnspentIn(utxoCache, op)

\* C20: checkConnectBlock runs the BIP0030 check exactly when the node is not a
\* grandfathered node (height 91842 or 91880 with the matching hash) and
\* node.height < BIP0034Height; when run, the block is rejected with
\* ErrOverwriteTx exactly when some output position of the block has an unspent
\* entry in the view or, absent from the view, in the UTXO store. (A store that
\* fails a fetch rejects the block with its own error.)
C20_Bip30GateAndOverwrite ==
    [][ (pc = "begin" /\ node.hash # chain.chainParams.GenesisHash
           /\ result' # "errFetchEntry")
          => ( result' = "ErrOverwriteTx" <=> (Bip30CheckRuns /\ OverwritesUnspent) ) ]_vars

\* height 91842 without the matching hash: the check runs and rejects
C20_Witness ==
    /\ node.height = 91842 /\ node.hash = block91880Hash
    /\ OverwritesUnspent
    /\ pc = "done" /\ result = "ErrOverwriteTx"

\* the hash of block 91880 at another height: the check runs and rejects
C20_WitnessHashAlone ==
    /\ node.height = 91843 /\ node.hash = block91880Hash
    /\ UnspentIn(utxoCache, OutPoint(CoinbaseHash, 0))
    /\ pc = "done" /\ result = "ErrOverwriteTx"

\* a grandfathered node whose coinbase output is unspent in the store: connected
C20_WitnessGrandfathered ==
    /\ node.height = 91880 /\ node.hash = block91880Hash
    /\ UnspentIn(utxoCache, OutPoint(CoinbaseHash, 0))
    /\ pc = "done" /\ result = NoError

\* at BIP0034Height the check no longer runs
C20_WitnessBip34 ==
    /\ node.height = chain.chainParams.BIP0034Height
    /\ UnspentIn(utxoCache, OutPoint(CoinbaseHash, 0))
    /\ pc = "done" /\ result = NoError

\* one block before, it runs
C20_WitnessBeforeBip34 ==
    /\ node.height = chain.chainParams.BIP0034Height - 1
    /\ UnspentIn(utxoCache, OutPoint(CoinbaseHash, 0))
    /\ pc = "done" /\ result = "ErrOverwriteTx"

\* a spent entry in the view hides the unspent entry of the store
C20_WitnessSpentInView ==
    /\ node.height = 91843
    /\ UnspentIn(utxoCache, OutPoint(CoinbaseHash, 0))
    /\ OutPoint(CoinbaseHash, 0) \in DOMAIN view /\ view[OutPoint(CoinbaseHash, 0)].spent
    /\ pc = "inputs" /\ txIdx = 1 /\ connected = {}


-----------------------------------------------------------------------------
(* CheckBlockHeaderContext and CheckConnectBlockTemplate.                   *)
(* A block is given as the wire message carries it; the three views below   *)
(* are what checkBlockSanity, checkBlockContext and checkConnectBlock read   *)
(* of it.                                                                   *)

\* an input and a transaction of a block message
WireTxIn(outpoint, sequence, sigScript) ==
    [Hash |-> outpoint.Hash, Index |-> outpoint.Index, Sequence |-> sequence,
     SignatureScript |-> sigScript]

WireTx(hash, lockTime, ins, outs) ==
    [Hash |-> hash, LockTime |-> lockTime, TxIn |-> ins, TxOut |-> outs]

\* a header: target is what its bits expand to, hashNum its hash as a number
WireHeader(version, prevBlock, timestamp, blockHash, hashNum) ==
    [Version |-> version, PrevBlock |-> prevBlock, Bits |-> 1, target |-> 5,
     Timestamp |-> timestamp, BlockHash |-> blockHash, hashNum |-> hashNum]

\* a block at a height (block.Height()), its merkle root that of its transactions
WireBlock(height, header, txs) == [height |-> height, header |-> header, txs |-> txs]

\* the block as checkBlockSanity reads it
SanityView(blk) ==
    SanityBlock(
      SanityHeader(blk.header.target, blk.header.hashNum, blk.header.Timestamp,
                   IF blk.txs = << >> THEN << zeroHash >> ELSE CalcMerkleRoot(blk.txs)),
      [i \in 1..Len(blk.txs) |->
         BlockTx(blk.txs[i].Hash,
                 [j \in 1..Len(blk.txs[i].TxIn) |->
                    SanityTxIn(PreviousOutPoint(blk.txs[i].TxIn[j]),
                               Len(blk.txs[i].TxIn[j].SignatureScript))],
                 blk.txs[i].TxOut)])

\* wire.MsgBlock.SerializeSize: the header (80 bytes), the count and the transactions
BlockSerializeSize(blk) ==
    80 + VarIntSerializeSize(Len(blk.txs)) + SumOver(SerializeSize, SanityView(blk).Transactions)

\* the header as the context checks read it: the timestamp in seconds
ContextHeader(header) ==
    [Version |-> header.Version, Bits |-> header.Bits, Timestamp |-> header.Timestamp.sec]

\* the block as checkBlockContext reads it
ContextView(blk) ==
    [ height        |-> blk.height,
      header        |-> ContextHeader(blk.header),
      serializeSize |-> BlockSerializeSize(blk),
      txs           |-> [i \in 1..Len(blk.txs) |-> [tx |-> blk.txs[i], count |-> 1]] ]

\* the block as checkConnectBlock reads it; its inputs all have the sequence
\* number MaxUint32, for which calcSequenceLock returns the lock (-1, -1)
ConnectView(blk) ==
    [locks |-> [i \in 1..Len(blk.txs) |->
                  [Seconds |-> 0 - 1, BlockHeight |-> 0 - 1, err |-> NoError]]]
    @@
    Block(blk.height, blk.header.Version,
          [i \in 1..Len(blk.txs) |->
             Tx(blk.txs[i].Hash,
                [j \in 1..Len(blk.txs[i].TxIn) |-> PreviousOutPoint(blk.txs[i].TxIn[j])],
                [k \in 1..Len(blk.txs[i].TxOut) |-> blk.txs[i].TxOut[k].Value])])

\* a node of the best chain: CalcPastMedianTime() and the state of the CSV
\* deployment at it are carried with it
TipNode(height, hash) ==
    [height |-> height, hash |-> hash, medianTime |-> ParentMedianTime,
     csvState |-> "ThresholdActive"]

\* newBlockNode(&header, tip)
newBlockNode(header, tip) ==
    BlockNode(tip.height + 1, header.BlockHash, header.Timestamp.sec, tip.medianTime,
              tip.csvState)

\* the flags CheckConnectBlockTemplate passes on
TemplateFlags(blk, chainParams) ==
    { "BFNoPoWCheck" }
      \cup (IF blk.height > chainParams.MagneticAnonomalyForkHeight
            THEN { "BFMagneticAnomaly" } ELSE {})

\* what the calls of checkBlockContext into the rest of the package return
\* for a block on the tip: the difficulty and the checkpoints pass, the CSV
\* deployment state is that of the tip or an error
TemplateEnvs(tip) ==
    { [EnvPass EXCEPT !.deploymentState = d] : d \in DeploymentStates(tip) }

SetCall(p, call) == calls' = [calls EXCEPT ![p] = call]


\* b.chainLock.Lock() that does not wait for the lock to be free
Lock_NoWait(p) ==
    /\ calls[p].pc = "call"
    /\ chainLock' = TRUE
    /\ SetCall(p, [calls[p] EXCEPT !.pc = "locked"])
    /\ UNCHANGED << bestChain, arg, ret >>
    /\ UNCHANGED << chain, utxoCache, node, block, view, stxos, pc, txIdx, totalFees,
                    scriptFlags, connected, checkedAt, seqLocks, scriptCall, result >>

\* b.chainLock.Lock(), the first statement of both functions
Lock(p) ==
    /\ calls[p].pc = "call"
    /\ chainLock = FALSE
    /\ chainLock' = TRUE
    /\ SetCall(p, [calls[p] EXCEPT !.pc = "locked"])
    /\ UNCHANGED << bestChain, arg, ret >>
    /\ UNCHANGED << chain, utxoCache, node, block, view, stxos, pc, txIdx, totalFees,
                    scriptFlags, connected, checkedAt, seqLocks, scriptCall, result >>

\* the variables of checkConnectBlock, which only the template's call of it sets
machineVars ==
    << node, block, view, stxos, pc, txIdx, totalFees, scriptFlags, connected,
       checkedAt, seqLocks, scriptCall, result >>

\* a step of a caller that leaves with err: the function returns and the
\* deferred Unlock follows in Unlock(p)
Leave(p, err) == SetCall(p, [calls[p] EXCEPT !.pc = "unlock", !.err = err])

\* CheckBlockHeaderContext, lines 617-619: the tip is read
HBC_Tip(p) ==
    /\ calls[p].fn = "CheckBlockHeaderContext" /\ calls[p].pc = "locked"
    /\ SetCall(p, [calls[p] EXCEPT !.pc = "check", !.tip = bestChain.tip])
    /\ UNCHANGED << chainLock, bestChain, arg, ret, chain, utxoCache, machineVars >>

\* CheckBlockHeaderContext, lines 621-626: the header's sanity, then its
\* context on the tip
HBC_Check(p) ==
    /\ calls[p].fn = "CheckBlockHeaderContext" /\ calls[p].pc = "check"
    /\ LET header == calls[p].header
           flags == {}
           err == checkBlockHeaderSanity(header, SanityEnv.powLimit, SanityEnv.timeSource,
                                         flags)
       IN  IF err # NoError THEN Leave(p, err)
           ELSE Leave(p, checkBlockHeaderContext(chain, ContextHeader(header),
                                                 calls[p].tip, flags, EnvPass))
    /\ UNCHANGED << chainLock, bestChain, arg, ret, chain, utxoCache, machineVars >>

\* the tip is read and the block is not compared with it
CCBT_Tip_NoPrevCheck(p) ==
    /\ calls[p].fn = "CheckConnectBlockTemplate" /\ calls[p].pc = "locked"
    /\ SetCall(p, [calls[p] EXCEPT !.pc = "sanity", !.tip = bestChain.tip])
    /\ UNCHANGED << chainLock, bestChain, arg, ret, chain, utxoCache, machineVars >>

\* CheckConnectBlockTemplate, lines 1280-1291: the tip is read and the block
\* must build on it
CCBT_Tip(p) ==
    /\ calls[p].fn = "CheckConnectBlockTemplate" /\ calls[p].pc = "locked"
    /\ LET tip == bestChain.tip
           header == calls[p].block.header
       IN  IF tip.hash # header.PrevBlock
           THEN SetCall(p, [calls[p] EXCEPT !.pc = "unlock", !.tip = tip,
                                            !.err = "ErrPrevBlockNotBest"])
           ELSE SetCall(p, [calls[p] EXCEPT !.pc = "sanity", !.tip = tip])
    /\ UNCHANGED << chainLock, bestChain, arg, ret, chain, utxoCache, machineVars >>

\* CheckConnectBlockTemplate, lines 1293-1302: the flags and checkBlockSanity
CCBT_Sanity(p) ==
    /\ calls[p].fn = "CheckConnectBlockTemplate" /\ calls[p].pc = "sanity"
    /\ LET blk == calls[p].block
           flags == TemplateFlags(blk, chain.chainParams)
           err == checkBlockSanity(SanityView(blk), SanityEnv.powLimit,
                                   SanityEnv.timeSource, flags)
       IN  IF err # NoError THEN Leave(p, err)
           ELSE SetCall(p, [calls[p] EXCEPT !.pc = "context"])
    /\ UNCHANGED << chainLock, bestChain, arg, ret, chain, utxoCache, machineVars >>

\* CheckConnectBlockTemplate, lines 1304-1313: checkBlockContext on the tip,
\* then checkConnectBlock is entered with a new view and a new node (its
\* stxos argument is nil: the log of the model is not kept by this call)
CCBT_Context(p) ==
    /\ calls[p].fn = "CheckConnectBlockTemplate" /\ calls[p].pc = "context"
    /\ \E env \in TemplateEnvs(calls[p].tip) :
         LET blk == calls[p].block
             tip == calls[p].tip
             flags == TemplateFlags(blk, chain.chainParams)
             err == checkBlockContext(chain, ContextView(blk), tip, flags, env)
         IN  IF err # NoError
             THEN Leave(p, err) /\ UNCHANGED machineVars
             ELSE /\ SetCall(p, [calls[p] EXCEPT !.pc = "connect"])
                  /\ view' = EmptyView
                  /\ node' = newBlockNode(blk.header, tip)
                  /\ block' = ConnectView(blk)
                  /\ stxos' = << >>
                  /\ pc' = "begin"
                  /\ txIdx' = 1
                  /\ totalFees' = 0
                  /\ scriptFlags' = {}
                  /\ connected' = {}
                  /\ checkedAt' = [i \in {} |-> {}]
                  /\ seqLocks' = << >>
                  /\ scriptCall' = NoCall
                  /\ result' = "running"
    /\ UNCHANGED << chainLock, bestChain, arg, ret, chain, utxoCache >>

\* CheckConnectBlockTemplate, line 1313: checkConnectBlock has returned, and
\* the template returns what it returned
CCBT_Connected(p) ==
    /\ calls[p].fn = "CheckConnectBlockTemplate" /\ calls[p].pc = "connect"
    /\ pc = "done"
    /\ Leave(p, result)
    /\ pc' = "idle"
    /\ UNCHANGED << chainLock, bestChain, arg, ret, chain, utxoCache, node, block, view,
                    stxos, txIdx, totalFees, scriptFlags, connected, checkedAt, seqLocks,
                    scriptCall, result >>

\* defer b.chainLock.Unlock(): runs as the function returns, on every path
Unlock(p) ==
    /\ calls[p].pc = "unlock"
    /\ chainLock' = FALSE
    /\ SetCall(p, [calls[p] EXCEPT !.pc = "returned"])
    /\ UNCHANGED << bestChain, arg, ret, chain, utxoCache, machineVars >>


\* the rest of the package moves the tip of the best chain, and holds the
\* chain lock while it does
SetBestChainTip ==
    /\ chainLock = FALSE
    /\ \E hash \in { "tipA", "tipB" } :
         /\ hash # bestChain.tip.hash
         /\ bestChain' = [tip |-> TipNode(bestChain.tip.height, hash)]
    /\ UNCHANGED << chainLock, calls, arg, ret, chain, utxoCache, machineVars >>

-----------------------------------------------------------------------------
(* Specification of concurrent callers of CheckBlockHeaderContext and       *)
(* CheckConnectBlockTemplate                                                *)

\* the callers of the model
MaxCallers == 2

Callers == 1..MaxCallers

\* tips below and above the MagneticAnomaly fork height and above that of Upgrade9
TemplateTipHeights ==
    { ChainParams("MainNet").MagneticAnonomalyForkHeight - 1,
      ChainParams("MainNet").MagneticAnonomalyForkHeight,
      ChainParams("MainNet").Upgrade9ForkHeight }

TemplateTimestamp == [sec |-> HeaderTimestamp, nsec |-> 0]

\* a coinbase paying the subsidy whose script pushes height h, with a public
\* key script of pkLen bytes: 63 + pkLen serialized bytes
TemplateCoinbase(h, pays, pkLen) ==
    WireTx(CoinbaseHash, 0, << WireTxIn(NullOutPoint, MaxUint32, HeightScript(h)) >>,
           << SanityTxOut(pays, pkLen) >>)

\* transaction A spending an outpoint: 62 + pkLen serialized bytes
TemplateTxA(outpoint, pkLen) ==
    WireTx(TxA, 0, << WireTxIn(outpoint, MaxUint32, << 1, 1 >>) >>,
           << SanityTxOut(1, pkLen) >>)

\* the blocks at height h on the block with hash prev; their hash is above
\* the target, as that of a template is
TemplateBlockOf(h, prev, txs) ==
    WireBlock(h, WireHeader(4, prev, TemplateTimestamp, "template", 6), txs)

\* a block that connects, one whose transaction A has 65 bytes, one without
\* transactions, one with the wrong height in its coinbase, one that spends
\* an output that does not exist; then blocks on another tip
TemplateBlocks(h) ==
    LET subsidy == CalcBlockSubsidy(h, ChainParams("MainNet"))
        coinbase == TemplateCoinbase(h, subsidy, 37)
    IN  << TemplateBlockOf(h, "tipA", << coinbase, TemplateTxA(OutPoint(11, 0), 38) >>),
           TemplateBlockOf(h, "tipA", << coinbase, TemplateTxA(OutPoint(11, 0), 3) >>),
           TemplateBlockOf(h, "tipA", << >>),
           TemplateBlockOf(h, "tipA", << TemplateCoinbase(h + 1, subsidy, 37) >>),
           TemplateBlockOf(h, "tipA", << coinbase, TemplateTxA(OutPoint(14, 0), 38) >>),
           TemplateBlockOf(h, "tipB", << coinbase, TemplateTxA(OutPoint(11, 0), 38) >>),
           TemplateBlockOf(h, "tipB", << >>) >>

\* headers: one that passes, one whose hash is above its target, one not
\* after the median time of the tip
TemplateHeaders ==
    << WireHeader(4, "tipA", TemplateTimestamp, "header", 5),
       WireHeader(4, "tipA", TemplateTimestamp, "header", 6),
       WireHeader(4, "tipA", [sec |-> ParentMedianTime, nsec |-> 0], "header", 5) >>

\* the calls a caller may make when the tip is at height h
CallsOn(h) ==
    [i \in 1..Len(TemplateBlocks(h + 1)) |->
       [fn |-> "CheckConnectBlockTemplate", pc |-> "call",
        block |-> TemplateBlocks(h + 1)[i], tip |-> Nil, err |-> "running"]]
      \o [i \in 1..Len(TemplateHeaders) |->
            [fn |-> "CheckBlockHeaderContext", pc |-> "call", header |-> TemplateHeaders[i],
             tip |-> Nil, err |-> "running"]]

InitTemplate ==
    /\ chain = BlockChain("MainNet", ModelExcessiveBlockSize, ModelAblaBlockSizeLimit, Nil)
    /\ utxoCache = ModelStore
    /\ node = BlockNode(701, "block", HeaderTimestamp, ParentMedianTime, "ThresholdStarted")
    /\ block = Block(701, 4, << CoinbaseTx(baseSubsidy) >>)
    /\ view = EmptyView
    /\ stxos = << >>
    /\ pc = "idle"
    /\ txIdx = 1
    /\ totalFees = 0
    /\ scriptFlags = {}
    /\ connected = {}
    /\ checkedAt = [i \in {} |-> {}]
    /\ seqLocks = << >>
    /\ scriptCall = NoCall
    /\ result = "running"
    /\ arg = NotCalled
    /\ ret = NotCalled
    /\ chainLock = FALSE
    /\ \E h \in TemplateTipHeights :
         /\ bestChain = [tip |-> TipNode(h, "tipA")]
         \* the callers are alike: their calls are taken in the order of the list
         /\ \E f \in [Callers -> 1..Len(CallsOn(h))] :
              /\ \A p, q \in Callers : p <= q => f[p] <= f[q]
              /\ calls = [p \in Callers |-> CallsOn(h)[f[p]]]

NextTemplate ==
    \/ \E p \in Callers :
         \/ Lock(p)
         \/ HBC_Tip(p)
         \/ HBC_Check(p)
         \/ CCBT_Tip(p)
         \/ CCBT_Sanity(p)
         \/ CCBT_Context(p)
         \/ CCBT_Connected(p)
         \/ Unlock(p)
    \/ SetBestChainTip
    \/ checkConnectBlock

SpecTemplate == InitTemplate /\ [][NextTemplate]_vars


-----------------------------------------------------------------------------
\* the callers that are in CheckConnectBlockTemplate and have read the tip
TemplateCallers ==
    { p \in Callers : calls[p].fn = "CheckConnectBlockTemplate" /\ calls[p].tip # Nil }

\* C21: CheckConnectBlockTemplate returns ErrPrevBlockNotBest exactly when the
\* block's PrevBlock is not the hash of the tip of the best chain, whatever
\* the sanity, context or connect checks would say of the block, and the tip
\* it compared with is the tip of the best chain during all of its checks and
\* the parent of the node it connects.
C21_PrevBlockNotBestFirst ==
    \A p \in TemplateCallers :
      LET call == calls[p]
      IN  /\ call.tip.hash # call.block.header.PrevBlock
               => call.pc \in { "unlock", "returned" } /\ call.err = "ErrPrevBlockNotBest"
          /\ call.err = "ErrPrevBlockNotBest" => call.tip.hash # call.block.header.PrevBlock
          /\ call.pc \in { "sanity", "context", "connect" } => call.tip = bestChain.tip
          /\ call.pc = "connect" => node.height = call.tip.height + 1

\* a block without transactions that is not on the tip is ErrPrevBlockNotBest
C21_Witness ==
    \E p \in TemplateCallers :
      /\ calls[p].block.txs = << >>
      /\ calls[p].pc = "returned"
      /\ calls[p].err = "ErrPrevBlockNotBest"

\* a block that would connect on the tip it names is rejected once the tip moved
C21_WitnessTipMoved ==
    \E p, q \in TemplateCallers :
      /\ calls[p].block.header.PrevBlock = "tipA"
      /\ calls[p].err = "ErrPrevBlockNotBest"
      /\ calls[q].block = calls[p].block
      /\ calls[q].err = NoError /\ calls[q].pc = "returned"


-----------------------------------------------------------------------------
\* the serialized sizes of the transactions of a block message
TemplateTxSizes(blk) ==
    { SerializeSize(SanityView(blk).Transactions[i]) : i \in 1..Len(blk.txs) }

\* C22: the template check uses the Upgrade9 activation of the block in its
\* context-free transaction checks: once Upgrade9 is active at the height of
\* the block, a block whose transactions all have at least 65 serialized bytes
\* is not rejected with ErrTxTooSmall.
C22_TemplateUsesUpgrade9 ==
    \A p \in TemplateCallers :
      LET blk == calls[p].block
      IN  /\ blk.height > chain.chainParams.Upgrade9ForkHeight
          /\ \A size \in TemplateTxSizes(blk) : size >= MinTransactionSize
          => calls[p].err # "ErrTxTooSmall"


-----------------------------------------------------------------------------
\* the unspent outputs of a store or of a view
UnspentSet(entries) == { op \in DOMAIN entries : ~entries[op].spent }

\* C23: no step of checkConnectBlock, on the way to success or to any error,
\* changes the unspent outputs of the store (utxoCache): spends and new
\* outputs go to the view only, and the view CheckConnectBlockTemplate passes
\* is a new empty one.
C23_StoreUntouched ==
    [][ /\ UnspentSet(utxoCache') = UnspentSet(utxoCache)
        /\ utxoCache' = utxoCache
        /\ (pc = "idle" /\ pc' = "begin") => view' = EmptyView ]_vars

\* the second transaction fails after the coinbase was connected: the view
\* holds the coinbase output, the store does not
C23_Witness ==
    /\ pc = "done" /\ result = "ErrMissingTxOut"
    /\ connected = {1}
    /\ UnspentIn(view, OutPoint(CoinbaseHash, 0))
    /\ OutPoint(CoinbaseHash, 0) \notin DOMAIN utxoCache

\* the block connects: its input is spent in the view and unspent in the store
C23_WitnessAccepted ==
    /\ pc = "done" /\ result = NoError
    /\ \E p \in TemplateCallers : calls[p].pc = "connect"
    /\ OutPoint(11, 0) \in DOMAIN view /\ view[OutPoint(11, 0)].spent
    /\ UnspentIn(utxoCache, OutPoint(11, 0))
    /\ UnspentIn(view, OutPoint(TxA, 0))


-----------------------------------------------------------------------------
\* caller p is between its Lock and its deferred Unlock
Inside(p) ==
    calls[p].pc \in { "locked", "check", "sanity", "context", "connect", "unlock" }

\* caller p has read the tip and has not returned from its checks
Validating(p) == calls[p].pc \in { "check", "sanity", "context", "connect" }

\* C24: CheckBlockHeaderContext and CheckConnectBlockTemplate hold the chain
\* lock from before the read of the tip to their return, on every return
\* path: no two calls are inside at once, the tip of the best chain is the
\* tip a call has read for as long as it validates against it, and the lock
\* is held exactly while a call is inside, so it is free once the call has
\* returned.
C24_ChainLockHeld ==
    /\ \A p, q \in Callers : Inside(p) /\ Inside(q) => p = q
    /\ \A p \in Callers : Validating(p) => calls[p].tip = bestChain.tip
    /\ chainLock = (\E p \in Callers : Inside(p))
    /\ \A p \in Callers : calls[p].pc = "call" => calls[p].tip = Nil

\* a call of the template has returned an error and a later call of
\* CheckBlockHeaderContext holds the lock
C24_Witness ==
    \E p, q \in Callers :
      /\ calls[p].fn = "CheckConnectBlockTemplate"
      /\ calls[p].pc = "returned" /\ calls[p].err = "ErrNoTransactions"
      /\ calls[q].fn = "CheckBlockHeaderContext"
      /\ Validating(q)
      /\ chainLock

\* a call of CheckBlockHeaderContext has returned an error, the tip has moved
\* since, and a call of the template validates against the new tip
C24_WitnessAfterHeader ==
    \E p, q \in Callers :
      /\ calls[p].fn = "CheckBlockHeaderContext"
      /\ calls[p].pc = "returned" /\ calls[p].err = "ErrTimeTooOld"
      /\ calls[p].tip.hash = "tipA"
      /\ calls[q].fn = "CheckConnectBlockTemplate"
      /\ calls[q].pc = "connect" /\ calls[q].tip.hash = "tipB"


-----------------------------------------------------------------------------
(* txscript: ErrorCode, Error and IsErrorCode                               *)

\* the constants of the ErrorCode enumeration in the order of their
\* declaration: iota gives the first the value 0 and each next one more
ErrorCodeConstants ==
    << "ErrInternal", "ErrInvalidFlags", "ErrInvalidIndex", "ErrUnsupportedAddress",
       "ErrNotMultisigScript", "ErrTooManyRequiredSigs", "ErrTooMuchNullData",
       "ErrEarlyReturn", "ErrEmptyStack", "ErrEvalFalse", "ErrScriptUnfinished",
       "ErrInvalidProgramCounter", "ErrScriptTooBig", "ErrElementTooBig",
       "ErrTooManyOperations", "ErrStackOverflow", "ErrInvalidPubKeyCount",
       "ErrInvalidSignatureCount", "ErrNumberTooBig", "ErrNumberTooSmall", "ErrOpCost",
       "ErrTooManyHashIters", "ErrConditionalStackDepth", "ErrVerify", "ErrEqualVerify",
       "ErrNumEqualVerify", "ErrCheckSigVerify", "ErrCheckMultiSigVerify",
       "ErrCheckDataSigVerify", "ErrDisabledOpcode", "ErrReservedOpcode",
       "ErrMalformedPush", "ErrInvalidStackOperation", "ErrUnbalancedConditional",
       "ErrInvalidInputLength", "ErrMinimalData", "ErrMinimalIf",
       "ErrInvalidSigHashType", "ErrSigTooShort", "ErrSigTooLong", "ErrSigInvalidSeqID",
       "ErrSigInvalidDataLen", "ErrSigMissingSTypeID", "ErrSigMissingSLen",
       "ErrSigInvalidSLen", "ErrSigInvalidRIntID", "ErrSigZeroRLen", "ErrSigNegativeR",
       "ErrSigTooMuchRPadding", "ErrSigInvalidSIntID", "ErrSigZeroSLen",
       "ErrSigNegativeS", "ErrSigTooMuchSPadding", "ErrSigHighS", "ErrNotPushOnly",
       "ErrSigNullDummy", "ErrPubKeyType", "ErrCleanStack", "ErrNullFail",
       "ErrDiscourageUpgradableNOPs", "ErrNegativeLockTime", "ErrUnsatisfiedLockTime",
       "ErrInvalidDummy", "ErrInvalidBitCount", "ErrInputSigChecks",
       "ErrIntegerOverflow", "numErrorCodes" >>

\* the value of a constant of the enumeration
ErrorCodeOf(name) ==
    CHOOSE i \in 0..(Len(ErrorCodeConstants) - 1) : ErrorCodeConstants[i + 1] = name

numErrorCodes == ErrorCodeOf("numErrorCodes")

\* the literal of the map errorCodeStrings: pairs of a constant and its string
errorCodeStringsLiteral ==
    { << "ErrInternal", "ErrInternal" >>, << "ErrInvalidFlags", "ErrInvalidFlags" >>, <<
      "ErrInvalidIndex", "ErrInvalidIndex" >>, << "ErrUnsupportedAddress",
      "ErrUnsupportedAddress" >>, << "ErrNotMultisigScript", "ErrNotMultisigScript" >>,
      << "ErrTooManyRequiredSigs", "ErrTooManyRequiredSigs" >>, << "ErrTooMuchNullData",
      "ErrTooMuchNullData" >>, << "ErrEarlyReturn", "ErrEarlyReturn" >>, <<
      "ErrEmptyStack", "ErrEmptyStack" >>, << "ErrEvalFalse", "ErrEvalFalse" >>, <<
      "ErrScriptUnfinished", "ErrScriptUnfinished" >>, << "ErrInvalidProgramCounter",
      "ErrInvalidProgramCounter" >>, << "ErrScriptTooBig", "ErrScriptTooBig" >>, <<
      "ErrElementTooBig", "ErrElementTooBig" >>, << "ErrTooManyOperations",
      "ErrTooManyOperations" >>, << "ErrStackOverflow", "ErrStackOverflow" >>, <<
      "ErrInvalidPubKeyCount", "ErrInvalidPubKeyCount" >>, <<
      "ErrInvalidSignatureCount", "ErrInvalidSignatureCount" >>, << "ErrNumberTooBig",
      "ErrNumberTooBig" >>, << "ErrNumberTooSmall", "ErrNumberTooSmall" >>, <<
      "ErrOpCost", "ErrOpCost" >>, << "ErrTooManyHashIters", "ErrTooManyHashIters" >>,
      << "ErrConditionalStackDepth", "ErrConditionalStackDepth" >>, << "ErrVerify",
      "ErrVerify" >>, << "ErrEqualVerify", "ErrEqualVerify" >>, << "ErrNumEqualVerify",
      "ErrNumEqualVerify" >>, << "ErrCheckSigVerify", "ErrCheckSigVerify" >>, <<
      "ErrCheckMultiSigVerify", "ErrCheckMultiSigVerify" >>, << "ErrCheckDataSigVerify",
      "ErrCheckDataSigVerify" >>, << "ErrDisabledOpcode", "ErrDisabledOpcode" >>, <<
      "ErrReservedOpcode", "ErrReservedOpcode" >>, << "ErrMalformedPush",
      "ErrMalformedPush" >>, << "ErrInvalidStackOperation", "ErrInvalidStackOperation"
      >>, << "ErrUnbalancedConditional", "ErrUnbalancedConditional" >>, <<
      "ErrInvalidInputLength", "ErrInvalidInputLength" >>, << "ErrMinimalData",
      "ErrMinimalData" >>, << "ErrMinimalIf", "ErrMinimalIf" >>, <<
      "ErrInvalidSigHashType", "ErrInvalidSigHashType" >>, << "ErrSigTooShort",
      "ErrSigTooShort" >>, << "ErrSigTooLong", "ErrSigTooLong" >>, <<
      "ErrSigInvalidSeqID", "ErrSigInvalidSeqID" >>, << "ErrSigInvalidDataLen",
      "ErrSigInvalidDataLen" >>, << "ErrSigMissingSTypeID", "ErrSigMissingSTypeID" >>,
      << "ErrSigMissingSLen", "ErrSigMissingSLen" >>, << "ErrSigInvalidSLen",
      "ErrSigInvalidSLen" >>, << "ErrSigInvalidRIntID", "ErrSigInvalidRIntID" >>, <<
      "ErrSigZeroRLen", "ErrSigZeroRLen" >>, << "ErrSigNegativeR", "ErrSigNegativeR" >>,
      << "ErrSigTooMuchRPadding", "ErrSigTooMuchRPadding" >>, << "ErrSigInvalidSIntID",
      "ErrSigInvalidSIntID" >>, << "ErrSigZeroSLen", "ErrSigZeroSLen" >>, <<
      "ErrSigNegativeS", "ErrSigNegativeS" >>, << "ErrSigTooMuchSPadding",
      "ErrSigTooMuchSPadding" >>, << "ErrSigHighS", "ErrSigHighS" >>, <<
      "ErrNotPushOnly", "ErrNotPushOnly" >>, << "ErrSigNullDummy", "ErrSigNullDummy" >>,
      << "ErrPubKeyType", "ErrPubKeyType" >>, << "ErrCleanStack", "ErrCleanStack" >>, <<
      "ErrNullFail", "ErrNullFail" >>, << "ErrDiscourageUpgradableNOPs",
      "ErrDiscourageUpgradableNOPs" >>, << "ErrNegativeLockTime", "ErrNegativeLockTime"
      >>, << "ErrUnsatisfiedLockTime", "ErrUnsatisfiedLockTime" >>, <<
      "ErrInvalidDummy", "ErrInvalidDummy" >>, << "ErrInvalidBitCount",
      "ErrInvalidBitCount" >>, << "ErrInputSigChecks", "ErrInputSigChecks" >>, <<
      "ErrIntegerOverflow", "ErrIntegerOverflow" >> }

\* errorCodeStrings[e]: the string of the entry whose key has the value e, and
\* the empty string when there is none
errorCodeStrings(e) ==
    LET entries == { kv \in errorCodeStringsLiteral : ErrorCodeOf(kv[1]) = e }
    IN  IF entries = {} THEN "" ELSE (CHOOSE kv \in entries : TRUE)[2]

\* ErrorCode.String
String(e) ==
    LET str == errorCodeStrings(e)
    IN  IF str # "" THEN str ELSE "Unknown ErrorCode (" \o ToString(e) \o ")"

\* a script error, and scriptError that makes one
Error(c, desc) == [type |-> "txscript.Error", ErrorCode |-> c, Description |-> desc]

scriptError(c, desc) == Error(c, desc)

\* IsErrorCode that takes any error with the code for a script error
IsErrorCode_AnyType(err, c) == err.type # "nil" /\ err.ErrorCode = c

\* IsErrorCode: the type assertion err.(Error), then the comparison of the code
IsErrorCode(err, c) ==
    LET ok == err.type = "txscript.Error"
    IN  ok /\ err.ErrorCode = c

-----------------------------------------------------------------------------
(* Specification of the calls of IsErrorCode and ErrorCode.String           *)

\* the codes of the model: every constant, and values on both sides of them
ModelErrorCodes == (0 - 2)..(numErrorCodes + 2)

ModelDescriptions == { "", "ErrInternal", "signature not empty on failed checksig" }

\* error values: nil, script errors, pointers to script errors and errors of
\* the blockchain package that carry a code of their own
ModelErrors ==
    { [type |-> "nil"] }
      \cup { scriptError(c, desc) : c \in ModelErrorCodes, desc \in ModelDescriptions }
      \cup { [type |-> t, ErrorCode |-> c, Description |-> desc] :
               t \in { "*txscript.Error", "blockchain.RuleError" },
               c \in { 0, 1, numErrorCodes - 1 }, desc \in ModelDescriptions }

CallIsErrorCode ==
    /\ arg = NotCalled
    /\ \E err \in ModelErrors, c \in ModelErrorCodes :
         /\ arg' = [fn |-> "IsErrorCode", err |-> err, c |-> c]
         /\ ret' = [fn |-> "IsErrorCode", v |-> IsErrorCode(err, c)]
    /\ UNCHANGED ccbVars

CallString ==
    /\ arg = NotCalled
    /\ \E e \in ModelErrorCodes :
         /\ arg' = [fn |-> "String", e |-> e]
         /\ ret' = [fn |-> "String", v |-> String(e)]
    /\ UNCHANGED ccbVars

NextScriptError == CallIsErrorCode \/ CallString

SpecScriptError == IdleInit /\ [][NextScriptError]_vars

\* C25: IsErrorCode(err, c) is true exactly when err is a script Error whose
\* ErrorCode is c, whatever its Description, and false for nil and every other
\* error value; ErrorCode.String returns the name of the constant for every
\* code from 0 to numErrorCodes - 1 and "Unknown ErrorCode (n)" for any other n.
C25_IsErrorCodeAndString ==
    /\ arg.fn = "IsErrorCode" =>
         /\ ret.v = (arg.err.type = "txscript.Error" /\ arg.err.ErrorCode = arg.c)
         /\ arg.err.type = "txscript.Error" =>
              \A desc \in ModelDescriptions :
                 IsErrorCode([arg.err EXCEPT !.Description = desc], arg.c) = ret.v
         /\ arg.err.type # "txscript.Error" => ret.v = FALSE
    /\ arg.fn = "String" =>
         IF arg.e \in 0..(numErrorCodes - 1)
         THEN ret.v = ErrorCodeConstants[arg.e + 1]
         ELSE ret.v = "Unknown ErrorCode (" \o ToString(arg.e) \o ")"

\* a script error whose description is the name of another code
C25_Witness ==
    /\ arg.fn = "IsErrorCode"
    /\ arg.err = scriptError(ErrorCodeOf("ErrIntegerOverflow"), "ErrInternal")
    /\ arg.c = ErrorCodeOf("ErrIntegerOverflow")
    /\ ret.v = TRUE

\* an error of another type with the code asked for
C25_WitnessOtherType ==
    /\ arg.fn = "IsErrorCode"
    /\ arg.err.type = "blockchain.RuleError" /\ arg.err.ErrorCode = arg.c
    /\ ret.v = FALSE

C25_WitnessNil ==
    /\ arg.fn = "IsErrorCode" /\ arg.err.type = "nil" /\ arg.c = 0 /\ ret.v = FALSE

\* the last constant with a name, and the first value without
C25_WitnessLastName ==
    /\ arg.fn = "String" /\ arg.e = numErrorCodes - 1 /\ ret.v = "ErrIntegerOverflow"

C25_WitnessUnknown ==
    /\ arg.fn = "String" /\ arg.e = numErrorCodes /\ ret.v = "Unknown ErrorCode (66)"

C25_WitnessNegative ==
    /\ arg.fn = "String" /\ arg.e = 0 - 1 /\ ret.v = "Unknown ErrorCode (-1)"


-----------------------------------------------------------------------------
\* the block of the call with the signature script of its coinbase replaced
WithCoinbaseScript(blk, script) ==
    [blk EXCEPT !.txs[1].tx.TxIn[1].SignatureScript = script]

\* what checkBlockContext returns for the call when the coinbase carries the
\* height of the block: the outcome of every check but that of the height
ContextErrBesidesHeight ==
    checkBlockContext(arg.b,
                      WithCoinbaseScript(arg.block, HeightScript(arg.prevNode.height + 1)),
                      arg.prevNode, arg.flags, arg.env)

\* the coinbase height is checked: no fast add, version 2 or more, height at
\* or above BIP0034Height
CoinbaseHeightChecked ==
    /\ "BFFastAdd" \notin arg.flags
    /\ arg.block.header.Version >= 2
    /\ arg.prevNode.height + 1 >= arg.b.chainParams.BIP0034Height

\* C26: without BFFastAdd, for a block of version 2 or more at a height
\* (parent height + 1) at or above BIP0034Height, checkBlockContext accepts
\* only if the height extracted from the coinbase signature script is that
\* height; a block that passes every other check gets
\* ErrMissingCoinbaseHeight when the script is malformed and
\* ErrBadCoinbaseHeight when the height differs.  For version 1, a height
\* below BIP0034Height or BFFastAdd the script of the coinbase has no effect.
C26_CoinbaseHeightFromBip34 ==
    ContextCalled =>
      LET extracted == ExtractCoinbaseHeight(arg.block.txs[1].tx)
          height == arg.prevNode.height + 1
      IN  IF CoinbaseHeightChecked
          THEN /\ ret.err = NoError => extracted.err = NoError /\ extracted.height = height
               /\ ContextErrBesidesHeight = NoError =>
                    ret.err = (IF extracted.err # NoError THEN "ErrMissingCoinbaseHeight"
                               ELSE IF extracted.height # height THEN "ErrBadCoinbaseHeight"
                               ELSE NoError)
               /\ ContextErrBesidesHeight # NoError => ret.err = ContextErrBesidesHeight
          ELSE /\ ret.err = ContextErrBesidesHeight
               /\ ret.err \notin { "ErrBadCoinbaseHeight", "ErrMissingCoinbaseHeight" }

\* the first block under BIP0034 with the height of the next block in its coinbase
C26_Witness ==
    /\ ContextCalled /\ CoinbaseHeightChecked
    /\ arg.prevNode.height + 1 = arg.b.chainParams.BIP0034Height
    /\ arg.block.txs[1].tx.TxIn[1].SignatureScript = HeightScript(arg.prevNode.height + 2)
    /\ ret.err = "ErrBadCoinbaseHeight"

C26_WitnessMalformed ==
    /\ ContextCalled /\ CoinbaseHeightChecked
    /\ arg.block.txs[1].tx.TxIn[1].SignatureScript = << 2, 5 >>
    /\ ret.err = "ErrMissingCoinbaseHeight"

C26_WitnessAccepted ==
    /\ ContextCalled /\ CoinbaseHeightChecked
    /\ arg.prevNode.height + 1 = arg.b.chainParams.BIP0034Height
    /\ ret.err = NoError

\* the block below BIP0034Height, version 1 and fast add: a wrong height passes
C26_WitnessBelowHeight ==
    /\ ContextCalled /\ arg.flags = {} /\ arg.block.header.Version = 2
    /\ arg.prevNode.height + 1 = arg.b.chainParams.BIP0034Height - 1
    /\ arg.block.txs[1].tx.TxIn[1].SignatureScript = HeightScript(arg.prevNode.height + 2)
    /\ ret.err = NoError

C26_WitnessVersionOne ==
    /\ ContextCalled /\ arg.flags = {} /\ arg.block.header.Version = 1
    /\ arg.block.txs[1].tx.TxIn[1].SignatureScript = << >>
    /\ ret.err = NoError

C26_WitnessFastAdd ==
    /\ ContextCalled /\ "BFFastAdd" \in arg.flags /\ arg.block.header.Version = 2
    /\ arg.prevNode.height + 1 = arg.b.chainParams.BIP0034Height
    /\ arg.block.txs[1].tx.TxIn[1].SignatureScript = << 2, 5 >>
    /\ ret.err = NoError


-----------------------------------------------------------------------------
\* what checkBlockHeaderContext returns for the header of the call
HeaderContextErr ==
    checkBlockHeaderContext(arg.b, arg.block.header, arg.prevNode, arg.flags, arg.env)

\* the two checks BFFastAdd skips: the expected difficulty, the timestamp
\* after the median time of the parent
DifficultyAsExpected ==
    /\ arg.env.calcNextRequiredDifficulty.err = NoError
    /\ arg.block.header.Bits = arg.env.calcNextRequiredDifficulty.bits

TimestampAfterMedian == arg.block.header.Timestamp > arg.prevNode.medianTime

\* the block forks the chain before the latest checkpoint
ForksBeforeCheckpoint ==
    /\ arg.env.findPreviousCheckpoint.node # Nil
    /\ arg.prevNode.height + 1 < arg.env.findPreviousCheckpoint.node.height

\* the version of the header is no longer valid at the height of the block
VersionTooOld ==
    LET version == arg.block.header.Version
        height == arg.prevNode.height + 1
        p == arg.b.chainParams
    IN  \/ version < 2 /\ height >= p.BIP0034Height
        \/ version < 3 /\ height >= p.BIP0066Height
        \/ version < 4 /\ height >= p.BIP0065Height

C27_WitnessSkipped ==
    /\ ContextCalled /\ "BFFastAdd" \in arg.flags
    /\ ~TimestampAfterMedian /\ ~DifficultyAsExpected
    /\ HeaderContextErr = NoError

C27_WitnessBadCheckpoint ==
    /\ ContextCalled /\ "BFFastAdd" \in arg.flags /\ ~DifficultyAsExpected
    /\ ret.err = "ErrBadCheckpoint"

C27_WitnessForkTooOld ==
    /\ ContextCalled /\ "BFFastAdd" \in arg.flags /\ ~TimestampAfterMedian
    /\ ret.err = "ErrForkTooOld"

\* the timestamp equal to the median time, without the flag
C27_WitnessTimeTooOld ==
    /\ ContextCalled /\ arg.flags = {}
    /\ arg.block.header.Timestamp = arg.prevNode.medianTime
    /\ ret.err = "ErrTimeTooOld"

C27_WitnessVersionThree ==
    /\ ContextCalled /\ arg.flags = {}
    /\ arg.block.header.Version = 3
    /\ arg.prevNode.height + 1 = arg.b.chainParams.BIP0065Height
    /\ ret.err = "ErrBlockVersionTooOld"


-----------------------------------------------------------------------------
(* Specification of checkConnectBlock over blocks that carry their sequence *)
(* locks, with and without the CSV deployment and a latest checkpoint       *)

\* blocks at a height whose subsidy is s: a coinbase alone; a transaction
\* with a fee of 2 claimed by the coinbase; the coinbase claiming more; an
\* input that does not exist; two transactions spending the same output
TailTxs(s) ==
    { << CoinbaseTx(s) >>,
      << CoinbaseTx(s + 2), Tx(TxA, << OutPoint(11, 0) >>, << 1 >>) >>,
      << CoinbaseTx(s + 3), Tx(TxA, << OutPoint(11, 0) >>, << 1 >>) >>,
      << CoinbaseTx(s), Tx(TxA, << OutPoint(14, 0) >>, << 1 >>) >>,
      << CoinbaseTx(s), Tx(TxA, << OutPoint(11, 0) >>, << 1 >>),
         Tx(TxB, << OutPoint(11, 0) >>, << 1 >>) >> }

\* the latest checkpoint: none, or one around the height of the node
TailCheckpoints(height) ==
    { Nil, [Height |-> height - 1], [Height |-> height], [Height |-> height + 1] }

InitTail ==
    /\ \E height \in { ChainParams("MainNet").MagneticAnonomalyForkHeight,
                       ChainParams("MainNet").MagneticAnonomalyForkHeight + 1 },
          csvState \in { "ThresholdStarted", "ThresholdActive" } :
         /\ \E checkpoint \in TailCheckpoints(height) :
              chain = BlockChain("MainNet", ModelExcessiveBlockSize, ModelAblaBlockSizeLimit,
                                 checkpoint)
         /\ node = BlockNode(height, "block", HeaderTimestamp, ParentMedianTime, csvState)
         /\ \E txs \in TailTxs(CalcBlockSubsidy(height, ChainParams("MainNet"))) :
              \E locks \in [1..Len(txs) -> SequenceLocks(node)] :
                 block = [locks |-> locks] @@ Block(height, 4, txs)
    /\ utxoCache = ModelStore
    /\ view = EmptyView
    /\ stxos = << >>
    /\ pc = "begin"
    /\ txIdx = 1
    /\ totalFees = 0
    /\ scriptFlags = {}
    /\ connected = {}
    /\ checkedAt = [i \in {} |-> {}]
    /\ seqLocks = << >>
    /\ scriptCall = NoCall
    /\ result = "running"
    /\ arg = NotCalled
    /\ ret = NotCalled
    /\ NoCallers

SpecConnectTail == InitTail /\ [][Next]_vars


CsvActive == node.parent.csvState = "ThresholdActive"

\* the sequence lock is active as the claim states it
LockIsActive(lock) ==
    lock.Seconds < node.parent.medianTime /\ lock.BlockHeight < node.height

\* some transaction of the block has a sequence lock that is not active
HasInactiveLock ==
    \E i \in 1..Len(block.txs) :
       block.locks[i].err = NoError /\ ~LockIsActive(block.locks[i])

\* C28: once the CSV deployment is active, checkConnectBlock rejects every
\* block that contains a transaction whose sequence lock is not active, a
\* lock being active iff lock.Seconds < parent median time and
\* lock.BlockHeight < node.height; the error is ErrUnfinalizedTx when the
\* locks of the block are computed without error.
C28_InactiveSequenceLockRejected ==
    (pc = "done" /\ CsvActive /\ HasInactiveLock) =>
       /\ result # NoError
       /\ (seqLocks # << >> /\ \A i \in 1..Len(block.txs) : block.locks[i].err = NoError)
            => result = "ErrUnfinalizedTx"

\* the time basis of checkBlockContext: the median time of the parent once
\* the CSV deployment is active, the timestamp of the header before
ContextTimeBasis ==
    IF arg.env.deploymentState.state = "ThresholdActive"
    THEN arg.prevNode.medianTime ELSE arg.block.header.Timestamp

\* checkBlockContext without BFFastAdd returns ErrUnfinalizedTx exactly for
\* the blocks that pass its earlier checks and hold a transaction that is not
\* finalized against (parent height + 1, time basis)
ContextFinalizedAgainstBasis ==
    (ContextCalled /\ "BFFastAdd" \notin arg.flags) =>
       LET unfinalized ==
               \E i \in 1..Len(arg.block.txs) :
                  ~IsFinalizedTransaction(arg.block.txs[i].tx, arg.prevNode.height + 1,
                                          ContextTimeBasis)
       IN  /\ (ret.err = NoError /\ arg.env.deploymentState.err = NoError) => ~unfinalized
           /\ ret.err = "ErrUnfinalizedTx" => unfinalized
           /\ ( /\ unfinalized
                /\ arg.env.deploymentState.err = NoError
                /\ checkBlockContext(arg.b, arg.block, arg.prevNode,
                                     arg.flags \cup {"BFFastAdd"}, arg.env) = NoError
                /\ HeaderContextErr = NoError )
                => ret.err = "ErrUnfinalizedTx"


-----------------------------------------------------------------------------
\* there is no latest checkpoint or the node is above it
AboveLatestCheckpoint ==
    chain.latestCheckpoint = Nil \/ node.height > chain.latestCheckpoint.Height

\* the checks before the scripts have passed: every transaction checked and
\* connected, the coinbase within the subsidy and the fees, and under the CSV
\* deployment every sequence lock computed and active
ChecksBeforeScriptsPassed ==
    /\ DOMAIN checkedAt = 1..Len(block.txs)
    /\ connected = 1..Len(block.txs)
    /\ SumSeq(block.txs[1].TxOut)
         <= CalcBlockSubsidy(node.height, chain.chainParams) + totalFees
    /\ CsvActive =>
         /\ seqLocks = block.locks
         /\ \A i \in 1..Len(block.txs) :
              block.locks[i].err = NoError /\ LockIsActive(block.locks[i])
    /\ result # "errDeploymentState"

\* C29: checkConnectBlock calls checkBlockScripts only after every other check
\* has passed, and then exactly when there is no latest checkpoint or the node
\* is above it; a block that fails an earlier check returns without the
\* scripts run, and a block that passes the other checks is accepted iff the
\* scripts are skipped or verify.
C29_ScriptsLastAndAboveCheckpoint ==
    /\ scriptCall.called =>
         /\ pc = "done"
         /\ AboveLatestCheckpoint
         /\ ChecksBeforeScriptsPassed
         /\ result \in { NoError, "ErrScriptValidation" }
    /\ (pc = "done" /\ ChecksBeforeScriptsPassed) =>
         /\ scriptCall.called <=> AboveLatestCheckpoint
         /\ result \in { NoError, "ErrScriptValidation" }
         /\ ~scriptCall.called => result = NoError
    /\ (pc = "done" /\ result = "ErrScriptValidation") => scriptCall.called
    /\ (pc = "done" /\ ~ChecksBeforeScriptsPassed) => ~scriptCall.called

\* the node at the height of the latest checkpoint: accepted, no scripts run
C29_Witness ==
    /\ pc = "done" /\ result = NoError
    /\ chain.latestCheckpoint # Nil /\ chain.latestCheckpoint.Height = node.height
    /\ ChecksBeforeScriptsPassed
    /\ Len(block.txs) = 2
    /\ ~scriptCall.called

\* the node one above the latest checkpoint: the scripts run and fail
C29_WitnessScriptsFail ==
    /\ pc = "done" /\ result = "ErrScriptValidation"
    /\ chain.latestCheckpoint # Nil /\ chain.latestCheckpoint.Height = node.height - 1
    /\ CsvActive
    /\ scriptCall.called

C29_WitnessNoCheckpoint ==
    /\ pc = "done" /\ result = NoError
    /\ chain.latestCheckpoint = Nil
    /\ scriptCall.called

\* rejected by the subsidy check and by the sequence locks, no scripts run
C29_WitnessSubsidy ==
    /\ pc = "done" /\ result = "ErrBadCoinbaseValue"
    /\ chain.latestCheckpoint = Nil /\ ~scriptCall.called

C29_WitnessSequenceLock ==
    /\ pc = "done" /\ result = "ErrUnfinalizedTx"
    /\ chain.latestCheckpoint = Nil /\ ~scriptCall.called


-----------------------------------------------------------------------------
(* The running totals of CheckTransactionSanity and CheckTransactionInputs  *)

\* A pass of one of the two loops over an amount: the total before it, the
\* amount, and the branch taken: "negative" (amount < 0), "aboveMax"
\* (amount > MaxSatoshi), "wrapped" (the wrap-detection comparison),
\* "totalAboveMax" (new total > MaxSatoshi), "added" (the loop goes on)
AmountStep(before, addend, branch) ==
    [before |-> before, addend |-> addend, branch |-> branch]

\* the output loop without the comparison of the amount with zero
RECURSIVE OutputSteps_NoNegativeCheck(_, _, _)
OutputSteps_NoNegativeCheck(txOut, i, totalSatoshi) ==
    IF i > Len(txOut) THEN << >>
    ELSE
      LET satoshi == txOut[i].Value
          total == totalSatoshi + satoshi
          Stop(branch) == << AmountStep(totalSatoshi, satoshi, branch) >>
      IN  IF satoshi > MaxSatoshi THEN Stop("aboveMax")
          ELSE IF total < 0 THEN Stop("wrapped")
          ELSE IF total > MaxSatoshi THEN Stop("totalAboveMax")
          ELSE << AmountStep(totalSatoshi, satoshi, "added") >>
                 \o OutputSteps_NoNegativeCheck(txOut, i + 1, total)

\* CheckTransactionSanity, lines 286-318: the passes of the loop over the
\* outputs from output i on, up to the first that returns an error
RECURSIVE OutputSteps(_, _, _)
OutputSteps(txOut, i, totalSatoshi) ==
    IF i > Len(txOut) THEN << >>
    ELSE
      LET satoshi == txOut[i].Value
          total == totalSatoshi + satoshi
          Stop(branch) == << AmountStep(totalSatoshi, satoshi, branch) >>
      IN  IF satoshi < 0 THEN Stop("negative")
          ELSE IF satoshi > MaxSatoshi THEN Stop("aboveMax")
          ELSE IF total < 0 THEN Stop("wrapped")
          ELSE IF total > MaxSatoshi THEN Stop("totalAboveMax")
          ELSE << AmountStep(totalSatoshi, satoshi, "added") >>
                 \o OutputSteps(txOut, i + 1, total)

\* CheckTransactionInputs, lines 874-939: the passes of the loop over the
\* inputs that reach the amount of the entry, up to the first that returns an
\* error
RECURSIVE InputSteps(_, _, _, _, _, _)
InputSteps(tx, txHeight, utxoView, chainParams, i, totalSatoshiIn) ==
    IF i > Len(tx.TxIn) THEN << >>
    ELSE
      LET utxo == LookupEntry(utxoView, tx.TxIn[i])
      IN  IF utxo = Nil THEN << >>
          ELSE IF utxo.spent THEN << >>
          ELSE IF utxo.isCoinBase
                  /\ txHeight - utxo.blockHeight < chainParams.CoinbaseMaturity
               THEN << >>
          ELSE
            LET originTxSatoshi == utxo.amount
                lastSatoshiIn == totalSatoshiIn
                newTotal == totalSatoshiIn + originTxSatoshi
                Stop(branch) == << AmountStep(totalSatoshiIn, originTxSatoshi, branch) >>
            IN  IF originTxSatoshi < 0 THEN Stop("negative")
                ELSE IF originTxSatoshi > MaxSatoshi THEN Stop("aboveMax")
                ELSE IF newTotal < lastSatoshiIn THEN Stop("wrapped")
                ELSE IF newTotal > MaxSatoshi THEN Stop("totalAboveMax")
                ELSE << AmountStep(totalSatoshiIn, originTxSatoshi, "added") >>
                       \o InputSteps(tx, txHeight, utxoView, chainParams, i + 1, newTotal)

\* MaxSatoshi is 21 * 2^14 * 5^14 satoshi, so twice MaxSatoshi is below 2^63
\* when 21 * 5^14 < 2^48, which follows from 21 * 5^7 < 2^21 and 5^7 < 2^17
TwiceMaxSatoshiFitsInt64 ==
    /\ MaxSatoshi = 21 * 2^14 * 5^4
    /\ 21 * 5^7 < 2^21
    /\ 5^7 < 2^17

-----------------------------------------------------------------------------
(* Specification of the two functions over amounts around the bounds *)

\* entries with amounts below zero, at and above MaxSatoshi, a spent one
AmountsView ==
    (OutPoint(31, 0) :> Entry(1, 10, FALSE, FALSE))
      @@ (OutPoint(32, 0) :> Entry(MaxSatoshi - 1, 10, FALSE, FALSE))
      @@ (OutPoint(33, 0) :> Entry(MaxSatoshi, 10, FALSE, FALSE))
      @@ (OutPoint(34, 0) :> Entry(MaxSatoshi + 1, 10, FALSE, FALSE))
      @@ (OutPoint(35, 0) :> Entry(0 - 1, 10, FALSE, FALSE))
      @@ (OutPoint(36, 0) :> Entry(0, 10, FALSE, FALSE))
      @@ (OutPoint(37, 0) :> Entry(1, 10, FALSE, TRUE))

AmountsTxs ==
    { Tx(5, ins, << 1 >>) : ins \in DistinctSeqs(DOMAIN AmountsView, MaxTxIn + 1) }

CallCheckInputAmounts ==
    /\ arg = NotCalled
    /\ \E tx \in AmountsTxs :
         /\ arg' = [fn |-> "CheckTransactionInputs", tx |-> tx, txHeight |-> 200,
                    utxoView |-> AmountsView, chainParams |-> chain.chainParams]
         /\ ret' = CheckTransactionInputs(tx, 200, AmountsView, chain.chainParams)
    /\ UNCHANGED ccbVars

NextAmounts == CallCheckTransactionSanity \/ CallCheckInputAmounts

SpecAmounts == IdleInit /\ [][NextAmounts]_vars

\* the passes of the amount loop of the call made
CallSteps ==
    IF arg.fn = "CheckTransactionSanity" THEN OutputSteps(arg.tx.TxOut, 1, 0)
    ELSE IF arg.fn = "CheckTransactionInputs"
    THEN InputSteps(arg.tx, arg.txHeight, arg.utxoView, arg.chainParams, 1, 0)
    ELSE << >>

\* the error of the amount loop of the call made
CallLoopErr ==
    IF arg.fn = "CheckTransactionSanity" THEN CheckOutputLoop(arg.tx.TxOut, 1, 0)
    ELSE CheckInputLoop(arg.tx, arg.txHeight, arg.utxoView, arg.chainParams, 1, 0).err

\* C30: in CheckTransactionSanity and CheckTransactionInputs every addition
\* to the running total is made with the total in [0, MaxSatoshi] and the
\* addend in [0, MaxSatoshi], so that the sum is at most twice MaxSatoshi,
\* which fits a signed 64-bit integer: a total above MaxSatoshi is rejected by
\* the comparison with MaxSatoshi, and the wrap-detection branches are never
\* taken.
C30_TotalsNeverWrap ==
    arg # NotCalled =>
      /\ TwiceMaxSatoshiFitsInt64
      /\ \A k \in 1..Len(CallSteps) :
           LET step == CallSteps[k]
               sum == step.before + step.addend
           IN  /\ step.before >= 0 /\ step.before <= MaxSatoshi
               /\ step.branch \in { "added", "wrapped", "totalAboveMax" } =>
                    /\ step.addend >= 0 /\ step.addend <= MaxSatoshi
                    /\ sum >= step.before /\ sum <= 2 * MaxSatoshi
               /\ step.branch # "wrapped"
               /\ (step.branch = "totalAboveMax") <=>
                    (step.addend \in 0..MaxSatoshi /\ sum > MaxSatoshi)
               /\ (step.branch = "added") <=>
                    (step.addend \in 0..MaxSatoshi /\ sum <= MaxSatoshi)
               /\ step.branch # "added" => k = Len(CallSteps)
      /\ CallLoopErr = "ErrBadTxOutValue" <=>
           (CallSteps # << >> /\ CallSteps[Len(CallSteps)].branch # "added")
      /\ CallLoopErr = "ErrBadTxOutValue" => ret.err # NoError

\* two outputs of MaxSatoshi: the total is twice MaxSatoshi at the comparison
C30_Witness ==
    /\ arg.fn = "CheckTransactionSanity"
    /\ Len(CallSteps) = 2
    /\ CallSteps[2] = AmountStep(MaxSatoshi, MaxSatoshi, "totalAboveMax")
    /\ ret.err = "ErrBadTxOutValue"

\* inputs of MaxSatoshi - 1, 1 and 1: the third takes the total above MaxSatoshi
C30_WitnessInputs ==
    /\ arg.fn = "CheckTransactionInputs"
    /\ Len(CallSteps) = 3
    /\ CallSteps[3] = AmountStep(MaxSatoshi, 1, "totalAboveMax")
    /\ ret.err = "ErrBadTxOutValue"

\* a negative amount after an addition
C30_WitnessNegative ==
    /\ arg.fn = "CheckTransactionInputs"
    /\ Len(CallSteps) = 2
    /\ CallSteps[2] = AmountStep(MaxSatoshi, 0 - 1, "negative")
    /\ ret.err = "ErrBadTxOutValue"

\* the total reaches MaxSatoshi and is accepted
C30_WitnessAtMax ==
    /\ arg.fn = "CheckTransactionSanity"
    /\ Len(CallSteps) = 2
    /\ CallSteps[2] = AmountStep(MaxSatoshi - 1, 1, "added")
    /\ CheckOutputLoop(arg.tx.TxOut, 1, 0) = NoError


====
